---------------------------- MODULE Spec2Model ----------------------------
(***************************************************************************)
(* A model of the lsf document pipeline (.lsf/scripts/python):             *)
(*   spec_to_requirements.py, requirements_to_red.py, red_to_green.py,     *)
(*   task_parser.py and constitutional_validator.py.                       *)
(*                                                                         *)
(* Text is modelled as a sequence of tokens (words); a document is a       *)
(* sequence of lines.  A regular expression of the code is modelled by     *)
(* what it matches on such documents: a header line followed by labelled   *)
(* field lines, with '.' crossing line ends only under re.DOTALL.          *)
(***************************************************************************)
EXTENDS Naturals, Sequences, FiniteSets, TLC

\* ------------------------------------------------------------------ text

\* The empty text.
Empty == <<>>

\* The right-arrow separator of traceability chains.
Arrow == "->"

\* A line-end token inside a captured multi-line value (re.DOTALL).
NL == "\\n"

\* The substrings (among those the code looks for) that a token contains,
\* other than the token itself.  'x in text' in the code is substring
\* containment; no looked-for substring holds a blank, so it lies inside one
\* word of the text.
SubOf(tok) ==
  CASE tok = "models.Model"   -> {"Model", "model"}
    [] tok = "(models.Model)" -> {"models.Model", "Model", "model"}
    [] tok = "(models.Model"  -> {"models.Model", "Model", "model"}
    [] tok = "(@api_view"     -> {"@api_view", "api"}
    [] tok = "(@shared_task"  -> {"@shared_task", "task"}
    [] tok = "@shared_task"   -> {"task"}
    [] tok = "integration/test_" -> {"integration/"}
    [] tok = "unit/test_"     -> {"unit/"}
    [] tok = "Model.objects"  -> {"Model"}
    [] tok = "/api/resource/" -> {"api", "/api/"}
    [] tok = "@api_view"      -> {"api"}
    [] tok = "<Component"     -> {"Component"}
    [] tok = "tasks"          -> {"task"}
    [] tok = "build"          -> {"ui"}
    [] tok = "statement"      -> {"state"}
    [] tok = "ImportError"    -> {"Error"}
    [] tok = "URLError"       -> {"Error"}
    [] tok = "pytest"         -> {"test"}
    [] tok = "tests/x.py"     -> {"test"}
    [] tok = "Implementation:" -> {"Implement", "Implementation"}
    [] tok = "implementation" -> {"implement"}
    [] tok = "Integration"    -> {"integration"}
    [] OTHER                  -> {}

\* str.lower() of a token.
LowerTok(tok) ==
  CASE tok = "Model"         -> "model"
    [] tok = "Model.objects" -> "model.objects"
    [] tok = "API"           -> "api"
    [] tok = "UI"            -> "ui"
    [] tok = "Task"          -> "task"
    [] tok = "Frontend"      -> "frontend"
    [] tok = "Backend"       -> "backend"
    [] tok = "Django"        -> "django"
    [] tok = "React"         -> "react"
    [] tok = "Component"     -> "component"
    [] tok = "<Component"    -> "<component"
    [] tok = "Implement"     -> "implement"
    [] tok = "Implementation" -> "implementation"
    [] tok = "Integrate"     -> "integrate"
    [] tok = "Configure"     -> "configure"
    [] tok = "Minimal"       -> "minimal"
    [] tok = "TEST"          -> "test"
    [] tok = "Please"        -> "please"
    [] OTHER                 -> tok

\* kw in text
Contains(text, kw) ==
  \E i \in DOMAIN text : text[i] = kw \/ kw \in SubOf(text[i])

\* phrase in text, for a phrase of several words
HasPhrase(text, phrase) ==
  \E i \in 1..Len(text) :
    i + Len(phrase) - 1 <= Len(text) /\ SubSeq(text, i, i + Len(phrase) - 1) = phrase

\* kw in text.lower()
ContainsLower(text, kw) ==
  \E i \in DOMAIN text : LowerTok(text[i]) = kw \/ kw \in { LowerTok(x) : x \in SubOf(text[i]) }

\* The index of the first occurrence of tok in text at or after from, 0 if none.
RECURSIVE IndexFrom(_, _, _)
IndexFrom(text, tok, from) ==
  IF from > Len(text) THEN 0
  ELSE IF text[from] = tok THEN from
  ELSE IndexFrom(text, tok, from + 1)

\* str.split(sep): the segments of text between the occurrences of sep;
\* always at least one segment, and empty segments are kept.
RECURSIVE Split(_, _)
Split(text, sep) ==
  LET i == IndexFrom(text, sep, 1) IN
    IF i = 0 THEN << text >>
    ELSE << SubSeq(text, 1, i - 1) >> \o Split(SubSeq(text, i + 1, Len(text)), sep)

\* str.replace(tok, ''): text without the occurrences of tok.
RECURSIVE Remove(_, _)
Remove(text, tok) ==
  IF text = <<>> THEN <<>>
  ELSE IF Head(text) = tok THEN Remove(Tail(text), tok)
  ELSE << Head(text) >> \o Remove(Tail(text), tok)

\* The concatenation of a sequence of sequences.
RECURSIVE Flatten(_)
Flatten(ss) == IF ss = <<>> THEN <<>> ELSE Head(ss) \o Flatten(Tail(ss))

\* f"{n:03d}": the zero-padded decimal numeral of a counter.
Pad3(n) ==
  CASE n = 0 -> "000" [] n = 1 -> "001" [] n = 2 -> "002" [] n = 3 -> "003"
    [] n = 4 -> "004" [] n = 5 -> "005" [] n = 6 -> "006" [] n = 7 -> "007"
    [] n = 8 -> "008" [] n = 9 -> "009" [] n = 10 -> "010" [] n = 11 -> "011"
    [] n = 12 -> "012" [] n = 13 -> "013" [] n = 14 -> "014" [] n = 15 -> "015"
    [] n = 16 -> "016" [] n = 17 -> "017" [] n = 18 -> "018" [] n = 19 -> "019"
    [] n = 20 -> "020" [] n = 21 -> "021" [] n = 22 -> "022" [] n = 23 -> "023"
    [] n = 24 -> "024" [] n = 25 -> "025" [] n = 26 -> "026" [] n = 27 -> "027"
    [] n = 28 -> "028" [] n = 29 -> "029" [] n = 30 -> "030" [] n = 31 -> "031"
    [] OTHER -> "999"

\* ----------------------------------------------------------------- lines

\* A line of a document.
\*   k      "hdr"   a record header  <kind>-<id>: <title> ...
\*          "field" a field line     - <label>: <v>      (q: v is back-quoted)
\*          "blank" an empty line
\*          "text"  any other line (a title, a section heading, prose)
\*   kind   the header's kind (RED, GREEN-INT, ...), "" otherwise
\*   id     the header's digits, "" otherwise
\*   label  the header's title phrase, or the field's label
\*   v, w   the header's first and second bracketed value, or the field's value
Line(k, kind, id, label, v, w, q) ==
  [k |-> k, kind |-> kind, id |-> id, label |-> label, v |-> v, w |-> w, q |-> q]

Hdr(kind, id, label, v)      == Line("hdr", kind, id, label, v, Empty, FALSE)
Hdr2(kind, id, label, v, w)  == Line("hdr", kind, id, label, v, w, FALSE)
Field(label, v)              == Line("field", "", "", label, v, Empty, FALSE)
QField(label, v)             == Line("field", "", "", label, v, Empty, TRUE)
Blank                        == Line("blank", "", "", "", Empty, Empty, FALSE)
TextLine(v)                  == Line("text", "", "", "", v, Empty, FALSE)

\* "\n".join(content) of the generators: the last line carries no line end.
\* A document is its lines and whether the text ends with a line end.
Doc(lines, nl) == [lines |-> lines, nl |-> nl]

NoDoc == Doc(<<>>, FALSE)

\* A path that names something read_text cannot read (a directory, a file
\* without read permission): the read raises an OSError other than
\* FileNotFoundError.
Unreadable == [lines |-> <<>>, nl |-> FALSE, oserror |-> TRUE]


\* The text of a line, as tokens.
LineText(l) ==
  CASE l.k = "hdr"   -> << l.kind \o "-" \o l.id \o ":", l.label >> \o l.v \o l.w
    [] l.k = "field" -> << "-", l.label \o ":" >> \o l.v
    [] OTHER         -> l.v

\* The text of lines a..b of a document, a line end before each.
RECURSIVE TextOf(_, _, _)
TextOf(lines, a, b) ==
  IF a > b THEN <<>>
  ELSE << NL >> \o LineText(lines[a]) \o TextOf(lines, a + 1, b)

\* ------------------------------------------------------ record patterns

\* A record pattern of the code: a regular expression
\*   <kind>-(\d+): <title> (captures) \n- <label 1>: (.*?) \n- <label 2>: ...
\* kind, title: the header it starts at; two: the header holds two captures;
\* close: what must stand right before the line end that precedes the first
\* label ("]" a closing bracket, "review" the words '] for implementation',
\* "any" nothing); els: the labelled fields in order, q: the value is
\* back-quoted (the literal opens with a back-quote and the capture ends at
\* a back-quote).
Pattern(kind, title, two, close, els) ==
  [kind |-> kind, title |-> title, two |-> two, close |-> close, els |-> els]

El(label, q) == [label |-> label, q |-> q]

\* The text before a line end satisfies what the pattern wants there.
CloseOK(l, close) ==
  CASE close = "any"    -> TRUE
    [] close = "bq"      -> l.k = "field" /\ l.q
    [] close = "]"      ->
         \/ l.k = "hdr" /\ l.label \in {"Write failing test", "Implement",
                                        "Verify existing implementation for", "["}
         \/ l.k = "field" /\ ~l.q /\ l.v # <<>> /\ l.v[Len(l.v)] = "]"
    [] close = "review" -> l.k = "hdr" /\ l.label = "Review requirement"
    [] OTHER            -> FALSE

\* The first line after prev that is the field '- <label>: ' of el (opening
\* a back-quote when q), the text before its line
\* start closing the previous capture; without re.DOTALL a capture cannot
\* cross a line end and only the next line is a candidate.  0 if none.
RECURSIVE Locate(_, _, _, _, _)
Locate(lines, prev, el, close, dotall) ==
  LET j == prev + 1 IN
    IF j > Len(lines) THEN 0
    ELSE IF lines[j].k = "field" /\ lines[j].label = el.label
            /\ (el.q => lines[j].q) /\ CloseOK(lines[j - 1], close) THEN j
    ELSE IF dotall THEN
      LET r == Locate(lines, j, el, close, dotall) IN r
    ELSE 0

\* The positions of the fields els[m..] after line prev, <<0>> ahead of a
\* failure.  Lazy captures take the first place where the rest can match; the
\* rest is searched in a suffix, so the first place is the only one to try.
RECURSIVE LocateAll(_, _, _, _, _, _)
LocateAll(lines, prev, els, m, close, dotall) ==
  IF m > Len(els) THEN <<>>
  ELSE LET j == Locate(lines, prev, els[m], close, dotall) IN
    IF j = 0 THEN << 0 >>
    ELSE LET rest == LocateAll(lines, j, els, m + 1,
                               IF els[m].q THEN "bq" ELSE "any", dotall) IN
      IF rest # <<>> /\ rest[1] = 0 THEN << 0 >> ELSE << j >> \o rest

\* The match of pattern pat starting at header line i:
\*   ok, id (the header digits), caps (the captures in order), at (i),
\*   pos (the field lines), last (the line the match ends in).
MatchAt(lines, i, pat, dotall) ==
  LET pos == LocateAll(lines, i, pat.els, 1, pat.close, dotall)
      n   == Len(pat.els)
      ok  == pos # <<>> /\ pos[1] # 0
      hdrCaps ==
        IF ~ok THEN <<>>
        ELSE IF pat.two
          THEN << lines[i].v,
                  IF pos[1] = i + 1 THEN lines[i].w
                  ELSE lines[i].w \o TextOf(lines, i + 1, pos[1] - 1) >>
          ELSE << IF pos[1] = i + 1 THEN lines[i].v
                  ELSE lines[i].v \o lines[i].w
                       \o TextOf(lines, i + 1, pos[1] - 1) >>
      fieldCaps ==
        IF ~ok THEN <<>>
        ELSE [m \in 1..n |->
               \* a capture holds the field's own value and the lines absorbed
               \* before the next label
               IF m < n THEN
                 IF pos[m + 1] <= pos[m] + 1 THEN lines[pos[m]].v
                 ELSE lines[pos[m]].v \o TextOf(lines, pos[m] + 1, pos[m + 1] - 1)
               \* the last capture ends at the first back-quote; an unquoted
               \* last '(.*?)' has nothing after it and matches nothing
               ELSE IF pat.els[m].q THEN lines[pos[m]].v ELSE Empty]
  IN [ok |-> ok, id |-> lines[i].id, caps |-> hdrCaps \o fieldCaps,
      at |-> i, pos |-> IF ok THEN pos ELSE <<>>,
      last |-> IF ok THEN pos[n] ELSE i]

\* re.findall(pattern, text): the matches left to right, each search starting
\* where the previous match ended.
RECURSIVE FindAll(_, _, _, _)
FindAll(lines, pat, dotall, start) ==
  IF start > Len(lines) THEN <<>>
  ELSE IF lines[start].k = "hdr" /\ lines[start].kind = pat.kind
          /\ lines[start].label = pat.title
    THEN LET After(m) ==
               IF m.ok THEN << m >> \o FindAll(lines, pat, dotall, m.last + 1)
               ELSE FindAll(lines, pat, dotall, start + 1)
         IN After(MatchAt(lines, start, pat, dotall))
  ELSE FindAll(lines, pat, dotall, start + 1)


\* ------------------------------------------------------------ identifiers

\* str(n): the decimal numeral of a counter.
Dec(n) ==
  CASE n = 0 -> "0" [] n = 1 -> "1" [] n = 2 -> "2" [] n = 3 -> "3"
    [] n = 4 -> "4" [] n = 5 -> "5" [] n = 6 -> "6" [] n = 7 -> "7"
    [] n = 8 -> "8" [] n = 9 -> "9" [] OTHER -> "99"

\* The digit strings of the model's documents.
DigitStrings == { Pad3(n) : n \in 0..31 } \cup { Dec(n) : n \in 0..9 }

\* The kinds of record header.
Kinds == {"OUT", "REQ", "TEST", "RED", "RED-SETUP", "RED-VALIDATE", "GREEN",
          "GREEN-INT", "GREEN-CONFIG", "GREEN-SKIP", "GREEN-REVIEW"}

\* '<kind>-<digits>'
Name(kind, digits) == kind \o "-" \o digits

\* re.search(r'\d+', s).group() on an identifier '<kind>-<digits>'.
DigitsOf(s) ==
  IF \E k \in Kinds, d \in DigitStrings : s = Name(k, d)
  THEN CHOOSE d \in DigitStrings : \E k \in Kinds : s = Name(k, d)
  ELSE ""

\* The kind of an identifier '<kind>-<digits>'.
KindOf(s) ==
  IF \E k \in Kinds, d \in DigitStrings : s = Name(k, d)
  THEN CHOOSE k \in Kinds : \E d \in DigitStrings : s = Name(k, d)
  ELSE ""

\* A string inside a text: the empty string adds nothing.
Tok(str) == IF str = "" THEN <<>> ELSE << str >>

\* The string a text stands for when it is one word (an identifier).
RECURSIVE Str(_)
Str(text) ==
  IF text = <<>> THEN ""
  ELSE IF Len(text) = 1 THEN text[1]
  ELSE text[1] \o " " \o Str(Tail(text))

\* The lines of a text that ends with a line end when nl.  The generators
\* join a list of lines whose last element is '' with line ends.
Join(content) ==
  IF content # <<>> /\ content[Len(content)] = Blank
  THEN Doc(SubSeq(content, 1, Len(content) - 1), TRUE)
  ELSE Doc(content, FALSE)

\* --------------------------------------------- spec_to_requirements.py

TestCase(id, requirement_id, outcome_id, test_type, input_data, expected_output, verify_command) ==
  [id |-> id, requirement_id |-> requirement_id, outcome_id |-> outcome_id,
   test_type |-> test_type, input_data |-> input_data,
   expected_output |-> expected_output, verify_command |-> verify_command]

\* The line starts a new record or block for the outcome pattern's
\* lookahead  \n(?:OUT-\d+:|Constraints:|$)
IsOutHeader(l)   == l.k = "hdr" /\ l.kind = "OUT"
IsConstraints(l) == l.k = "text" /\ l.v # <<>> /\ l.v[1] = "Constraints:"

\* The first line e >= from after which the lookahead of the outcome pattern
\* holds: the next line is an OUT header or the Constraints block, or the
\* text ends right after the line end ('$' without re.MULTILINE matches at
\* the end of the text and before a last line end).  0 if none.
RECURSIVE CriteriaEnd(_, _)
CriteriaEnd(doc, e) ==
  LET n == Len(doc.lines) IN
    IF e > n THEN 0
    ELSE IF e < n /\ (IsOutHeader(doc.lines[e + 1]) \/ IsConstraints(doc.lines[e + 1]))
      THEN e
    ELSE IF e = n /\ doc.nl THEN e
    ELSE IF e = n - 1 /\ doc.lines[n].k = "blank" /\ doc.nl THEN e
    ELSE CriteriaEnd(doc, e + 1)

\* [c.strip() for c in text.split('\n') if c.strip()] of lines a..b
RECURSIVE NonEmptyLines(_, _, _)
NonEmptyLines(lines, a, b) ==
  IF a > b THEN <<>>
  ELSE (IF LineText(lines[a]) = <<>> THEN <<>> ELSE << LineText(lines[a]) >>)
       \o NonEmptyLines(lines, a + 1, b)

\* The index of the first line at or after from that satisfies nothing but
\* being the Constraints block start; 0 if none.
RECURSIVE FirstConstraints(_, _)
FirstConstraints(lines, from) ==
  IF from > Len(lines) THEN 0
  ELSE IF IsConstraints(lines[from]) THEN from
  ELSE FirstConstraints(lines, from + 1)

\* The last line of the Constraints block that starts at line c: the block
\* runs to the next 'OUT-' or the end of the text.
RECURSIVE ConstraintsEnd(_, _)
ConstraintsEnd(lines, e) ==
  IF e >= Len(lines) THEN Len(lines)
  ELSE IF IsOutHeader(lines[e + 1]) THEN e
  ELSE ConstraintsEnd(lines, e + 1)

\* The constraints every outcome gets: the lines after the first
\* 'Constraints:' line of the document.
SharedConstraints(doc) ==
  LET c == FirstConstraints(doc.lines, 1) IN
    IF c = 0 THEN <<>>
    ELSE NonEmptyLines(doc.lines, c + 1, ConstraintsEnd(doc.lines, c))

\* parse_outcomes from line start on.
RECURSIVE ParseOutcomesFrom(_, _)
ParseOutcomesFrom(doc, start) ==
  IF start > Len(doc.lines) THEN <<>>
  ELSE IF ~IsOutHeader(doc.lines[start]) THEN ParseOutcomesFrom(doc, start + 1)
  ELSE
    LET j == Locate(doc.lines, start, El("Success Criteria", FALSE), "any", TRUE)
        e == IF j = 0 THEN 0 ELSE CriteriaEnd(doc, j)
    IN IF e = 0 THEN ParseOutcomesFrom(doc, start + 1)
       ELSE << [id |-> Name("OUT", doc.lines[start].id),
                 description |->
                   IF j = start + 1 THEN doc.lines[start].v
                   ELSE doc.lines[start].v \o TextOf(doc.lines, start + 1, j - 1),
                 success_criteria |->
                   (IF doc.lines[j].v = <<>> THEN <<>> ELSE << doc.lines[j].v >>)
                   \o NonEmptyLines(doc.lines, j + 1, e),
                 constraints |-> SharedConstraints(doc)] >>
            \o ParseOutcomesFrom(doc, e + 1)

parse_outcomes(doc) == ParseOutcomesFrom(doc, 1)

\* The keyword table of select_component, in the order of the dict.
component_map ==
  << << "authentication", << "Django", "auth", "(django.contrib.auth)" >> >>,
     << "api",            << "Django", "@api_view", "decorator" >> >>,
     << "model",          << "Django", "ORM", "(models.Model)" >> >>,
     << "task",           << "Celery", "@shared_task" >> >>,
     << "validation",     << "Django", "forms", "(forms.Form)" >> >>,
     << "ui",             << "React", "functional", "component" >> >>,
     << "state",          << "useState/useContext", "hooks" >> >>,
     << "routing",        << "React", "Router" >> >>,
     << "http",           << "Axios", "client" >> >>,
     << "form",           << "React", "controlled", "components" >> >>,
     << "style",          << "CSS", "modules" >> >> >>

\* The first entry of the table at or after k whose key the text holds.
RECURSIVE FirstKey(_, _)
FirstKey(text, k) ==
  IF k > Len(component_map) THEN 0
  ELSE IF ContainsLower(text, component_map[k][1]) THEN k
  ELSE FirstKey(text, k + 1)

\* select_component that lets the first word of the text that holds a key
\* decide, whatever the place of the key in the table.
RECURSIVE select_component_by_position(_)
select_component_by_position(requirement_type) ==
  IF requirement_type = <<>> THEN << "Django", "@api_view", "decorator" >>
  ELSE IF FirstKey(<< Head(requirement_type) >>, 1) # 0
    THEN component_map[FirstKey(<< Head(requirement_type) >>, 1)][2]
  ELSE IF LowerTok(Head(requirement_type)) = "frontend"
    THEN << "React", "functional", "component" >>
  ELSE select_component_by_position(Tail(requirement_type))

select_component_spec(requirement_type) ==
  LET k == FirstKey(requirement_type, 1) IN
    IF k # 0 THEN component_map[k][2]
    ELSE IF ContainsLower(requirement_type, "frontend")
            \/ ContainsLower(requirement_type, "ui")
      THEN << "React", "functional", "component" >>
    ELSE << "Django", "@api_view", "decorator" >>

\* re.sub(r'\b(should|must|will|shall)\b', '', criterion, re.IGNORECASE),
\* then strip().capitalize(): every character after the first is lowered,
\* and the first is the dash a criterion line starts with.  The criteria of
\* the model are shorter than 100 characters, so nothing is cut.
simplify_constraint(criterion) ==
  LET simplified ==
        SelectSeq(criterion,
          LAMBDA tok : LowerTok(tok) \notin {"should", "must", "will", "shall"})
  IN [i \in DOMAIN simplified |->
        IF i = 1 /\ simplified[i] = "-" THEN "-" ELSE LowerTok(simplified[i])]

derive_acceptance(criterion) ==
  IF ContainsLower(criterion, "display") \/ ContainsLower(criterion, "show")
    THEN << "UI", "element", "renders", "with", "data" >>
  ELSE IF ContainsLower(criterion, "create") \/ ContainsLower(criterion, "add")
    THEN << "Returns", "ID", "when", "created" >>
  ELSE IF ContainsLower(criterion, "update") \/ ContainsLower(criterion, "edit")
    THEN << "Returns", "success", "status" >>
  ELSE IF ContainsLower(criterion, "delete") \/ ContainsLower(criterion, "remove")
    THEN << "Returns", "confirmation" >>
  ELSE IF ContainsLower(criterion, "validate")
    THEN << "Returns", "valid/invalid", "with", "errors" >>
  ELSE << "Operation", "completes", "successfully" >>

\* One requirement per success criterion, the outcomes in order and the
\* criteria of an outcome in order; req_counter runs over all of them.
\* derive_requirements with the outcome id rebuilt from the requirement
\* counter instead of taken from the outcome.
derive_requirements_by_counter(outcomes) ==
  LET criteria ==
        Flatten([o \in DOMAIN outcomes |->
                   [c \in DOMAIN outcomes[o].success_criteria |->
                      outcomes[o].success_criteria[c]]])
  IN [req_counter \in DOMAIN criteria |->
        [id |-> Name("REQ", Pad3(req_counter)),
         outcome_id |-> Name("OUT", Dec(req_counter)),
         constraint |-> simplify_constraint(criteria[req_counter]),
         component |-> select_component_spec(criteria[req_counter]),
         acceptance |-> derive_acceptance(criteria[req_counter])]]

derive_requirements(outcomes) ==
  LET criteria ==
        Flatten([o \in DOMAIN outcomes |->
                   [c \in DOMAIN outcomes[o].success_criteria |->
                      << outcomes[o].id, outcomes[o].success_criteria[c] >>]])
  IN [req_counter \in DOMAIN criteria |->
        LET criterion == criteria[req_counter][2] IN
          [id |-> Name("REQ", Pad3(req_counter)),
           outcome_id |-> criteria[req_counter][1],
           constraint |-> simplify_constraint(criterion),
           component |-> select_component_spec(criterion),
           acceptance |-> derive_acceptance(criterion)]]

generate_test_input(req) ==
  IF ContainsLower(req.component, "api")
    THEN << "POST", "/api/resource/", "{name:Test}" >>
  ELSE IF ContainsLower(req.component, "model")
    THEN << "Model.objects", "create(name=Test)" >>
  ELSE IF Contains(req.component, "React")
    THEN << "<Component", "id={1}", "/>" >>
  ELSE << "Standard", "test", "input" >>

\* derive_test_cases with the outcome of the first requirement given to
\* every test case.
derive_test_cases_first_outcome(requirements) ==
  [ test_counter \in 1..Len(requirements) |->
    LET req == requirements[test_counter]
        django == Contains(req.component, "Django")
        react  == Contains(req.component, "React")
        celery == Contains(req.component, "Celery")
    IN TestCase(
         Name("TEST", Pad3(test_counter)), req.id, requirements[1].outcome_id,
         IF django \/ (~react /\ celery) THEN << "Backend", "Integration" >>
         ELSE IF react THEN << "Frontend", "Integration" >>
         ELSE << "Integration" >>,
         generate_test_input(req),
         req.acceptance,
         IF django
           THEN << "pytest",
                   "tests/integration/test_feature.py::test_" \o Dec(test_counter) >>
         ELSE IF react THEN << "npm", "test", "--", "Feature.test.tsx" >>
         ELSE IF celery
           THEN << "pytest",
                   "tests/integration/test_tasks.py::test_" \o Dec(test_counter) >>
         ELSE << "pytest",
                 "tests/integration/test_" \o Dec(test_counter) \o ".py" >>) ]

derive_test_cases(requirements) ==
  [ test_counter \in 1..Len(requirements) |->
    LET req == requirements[test_counter]
        django == Contains(req.component, "Django")
        react  == Contains(req.component, "React")
        celery == Contains(req.component, "Celery")
    IN TestCase(
         Name("TEST", Pad3(test_counter)), req.id, req.outcome_id,
         IF django \/ (~react /\ celery) THEN << "Backend", "Integration" >>
         ELSE IF react THEN << "Frontend", "Integration" >>
         ELSE << "Integration" >>,
         generate_test_input(req),
         req.acceptance,
         IF django
           THEN << "pytest",
                   "tests/integration/test_feature.py::test_" \o Dec(test_counter) >>
         ELSE IF react THEN << "npm", "test", "--", "Feature.test.tsx" >>
         ELSE IF celery
           THEN << "pytest",
                   "tests/integration/test_tasks.py::test_" \o Dec(test_counter) >>
         ELSE << "pytest",
                 "tests/integration/test_" \o Dec(test_counter) \o ".py" >>) ]

generate_requirements_file(requirements) ==
  Join(<< TextLine(<< "#", "Requirements" >>), Blank,
          TextLine(<< "##", "Derived", "Requirements" >>), Blank >>
       \o Flatten([i \in DOMAIN requirements |->
            LET req == requirements[i] IN
              << Hdr(KindOf(req.id), DigitsOf(req.id), "[", Tok(req.outcome_id)),
                 Field("Constraint", req.constraint),
                 Field("Component", req.component),
                 Field("Acceptance", req.acceptance),
                 Blank >>])
       \o << TextLine(<< "##", "Validation", "Checklist" >>), Blank,
             TextLine(<< "-", "[ ]", "All", "requirements", "traced" >>),
             TextLine(<< "-", "[ ]", "All", "components", "from",
                         "architecture-boundaries.md" >>),
             TextLine(<< "-", "[ ]", "No", "custom", "implementations" >>),
             TextLine(<< "-", "[ ]", "Minimal", "scope" >>),
             Blank >>)

generate_test_cases_file(test_cases) ==
  Join(<< TextLine(<< "#", "Test", "Cases" >>), Blank,
          TextLine(<< "##", "Derived", "Test", "Cases" >>), Blank >>
       \o Flatten([i \in DOMAIN test_cases |->
            LET test == test_cases[i] IN
              << Hdr(KindOf(test.id), DigitsOf(test.id), "[",
                     Tok(test.requirement_id) \o << Arrow >> \o Tok(test.outcome_id)),
                 Field("Type", test.test_type),
                 Field("Input", test.input_data),
                 Field("Expected", test.expected_output),
                 QField("Verify", test.verify_command),
                 Blank >>])
       \o << TextLine(<< "##", "Coverage", "Checklist" >>), Blank,
             TextLine(<< "-", "[ ]", "All", "requirements", "have", "test", "cases" >>),
             TextLine(<< "-", "[ ]", "All", "test", "types", "appropriate" >>),
             TextLine(<< "-", "[ ]", "All", "verification", "commands", "executable" >>),
             TextLine(<< "-", "[ ]", "Traceability", "chain", "complete" >>),
             Blank >>)

\* SpecToRequirementsTransformer.transform: the two documents.
transform_spec(spec_content) ==
  LET Generate(requirements) ==
        << generate_requirements_file(requirements),
           generate_test_cases_file(derive_test_cases(requirements)) >>
  IN Generate(derive_requirements(parse_outcomes(spec_content)))


\* ---------------------------------------------- requirements_to_red.py

RedTask(id, test_id, traceability, test_type, file_location, function_name, expected_failure, verify_failure) ==
  [id |-> id, test_id |-> test_id, traceability |-> traceability,
   test_type |-> test_type, file_location |-> file_location,
   function_name |-> function_name, expected_failure |-> expected_failure,
   verify_failure |-> verify_failure]

RedSetupTask(id, description, purpose, dependencies, configuration, verify_setup) ==
  [id |-> id, description |-> description, purpose |-> purpose,
   dependencies |-> dependencies, configuration |-> configuration,
   verify_setup |-> verify_setup]

\* parse_test_cases: re.findall with re.MULTILINE (no capture crosses a line
\* end); the bracket is split on the arrow, the first part is the
\* requirement id and the second, if any, the outcome id.
parse_test_cases(test_cases_content) ==
  LET \* (TEST-\d+): \[(.*?)\]\n- Type: (.*?)\n- Input: (.*?)\n- Expected: (.*?)
      \* \n- Verify: `(.*?)`
      pattern ==
        Pattern("TEST", "[", FALSE, "]",
                << El("Type", FALSE), El("Input", FALSE), El("Expected", FALSE),
                   El("Verify", TRUE) >>)
      Record(match, trace_parts) ==
        TestCase(Name("TEST", match.id),
                 Str(trace_parts[1]),
                 IF Len(trace_parts) > 1 THEN Str(trace_parts[2]) ELSE "",
                 match.caps[2], match.caps[3], match.caps[4], match.caps[5])
      Records(matches) ==
        [ i \in DOMAIN matches |->
          Record(matches[i], Split(matches[i].caps[1], Arrow)) ]
  IN Records(FindAll(test_cases_content.lines, pattern, FALSE, 1))

\* determine_file_location of requirements_to_red.py; a path is the text of
\* its directory parts, its stem and its extensions.
red_file_location(test_type, test_id) ==
  LET test_num == DigitsOf(test_id) IN
    IF Contains(test_type, "Backend") THEN
      IF Contains(test_type, "Integration")
        THEN << "tests/", "integration/test_", "feature_" \o test_num, ".py" >>
      ELSE IF Contains(test_type, "Contract")
        THEN << "tests/", "contract/test_", "api_" \o test_num, ".py" >>
      ELSE IF Contains(test_type, "Unit")
        THEN << "tests/", "unit/test_", "module_" \o test_num, ".py" >>
      ELSE << "tests/", "test_" \o test_num, ".py" >>
    ELSE IF Contains(test_type, "Frontend") THEN
      IF Contains(test_type, "Integration")
        THEN << "src/frontend/tests/", "integration/", "Feature" \o test_num,
                ".test", ".tsx" >>
      ELSE IF Contains(test_type, "Unit")
        THEN << "src/frontend/tests/", "unit/", "module" \o test_num,
                ".test", ".ts" >>
      ELSE << "src/frontend/tests/", "test_" \o test_num, ".tsx" >>
    ELSE IF Contains(test_type, "Load")
      THEN << "tests/", "performance/", "test_load_" \o test_num, ".py" >>
    ELSE << "tests/", "integration/test_", test_num, ".py" >>

determine_function_name(test_id, test_type) ==
  LET test_num == DigitsOf(test_id) IN
    IF Contains(test_type, "Backend") \/ Contains(test_type, "Load")
      THEN << "test_scenario_" \o test_num, "()" >>
    ELSE IF Contains(test_type, "Frontend")
      THEN << "test_component_" \o test_num, "()" >>
    ELSE << "test_case_" \o test_num, "()" >>

determine_expected_failure(test_type, input_data) ==
  IF ContainsLower(input_data, "model") \/ Contains(input_data, "Model")
    THEN << "ImportError", "(", "Model", "not", "implemented", ")" >>
  ELSE IF ContainsLower(input_data, "api") \/ Contains(input_data, "/api/")
    THEN << "URLError", "(", "API", "endpoint", "not", "implemented", ")" >>
  ELSE IF Contains(input_data, "Component")
    THEN << "Component", "not", "implemented" >>
  ELSE IF ContainsLower(input_data, "task")
    THEN << "ImportError", "(", "Task", "not", "implemented", ")" >>
  ELSE << "Function/Module", "not", "implemented" >>

\* The directory parts of a path end with '/' or are a directory with the
\* start of the file name.
IsDirPart(tok) ==
  tok \in {"tests/", "src/frontend/tests/", "integration/", "unit/",
           "performance/", "contract/"}

\* Path(file_location).name
RECURSIVE PathName(_)
PathName(path) ==
  IF path = <<>> THEN <<>>
  ELSE IF \E i \in DOMAIN path : IsDirPart(path[i]) THEN PathName(Tail(path))
  ELSE path

generate_verify_command(file_location, function_name) ==
  LET func_without_parens == Remove(function_name, "()")
      ext == IF file_location = <<>> THEN "" ELSE file_location[Len(file_location)]
  IN IF ext = ".py"
       THEN << "pytest" >> \o file_location \o << "::" >> \o func_without_parens
            \o << "--tb=short" >>
     ELSE IF ext \in {".tsx", ".ts"}
       THEN << "npm", "test", "--" >> \o PathName(file_location)
     ELSE << "python" >> \o file_location

\* The traceability chain of a red task: f"[{id}→{requirement_id}→{outcome_id}]"
Chain(a, b, c) ==
  << "[" >> \o Tok(a) \o << Arrow >> \o Tok(b) \o << Arrow >> \o Tok(c) \o << "]" >>

create_red_tasks(test_cases) ==
  [ task_counter \in 1..Len(test_cases) |->
    LET test_case == test_cases[task_counter]
        file_location == red_file_location(test_case.test_type, test_case.id)
        function_name == determine_function_name(test_case.id, test_case.test_type)
    IN RedTask(Pad3(task_counter), test_case.id,
               Chain(test_case.id, test_case.requirement_id, test_case.outcome_id),
               test_case.test_type, file_location, function_name,
               determine_expected_failure(test_case.test_type, test_case.input_data),
               generate_verify_command(file_location, function_name)) ]

\* create_setup_tasks with task_counter never advanced: every task is 001.
create_setup_tasks_one_counter(test_cases) ==
  LET Needs(word) ==
        \E i \in DOMAIN test_cases : Contains(test_cases[i].test_type, word)
  IN (IF Needs("Backend") THEN << RedSetupTask(Pad3(1),
    << "Setup", "test", "database", "for", "Django" >>,
    << "Enable", "backend", "integration", "tests" >>,
    << "DATABASE", "fixtures,", "Django", "test", "client" >>,
    << "DATABASES", "test", "settings,", "migrations" >>,
    << "pytest", "tests/integration", "--collect-only" >>) >> ELSE <<>>)
     \o (IF Needs("Contract") THEN << RedSetupTask(Pad3(1),
    << "Setup", "API", "contract", "mocks" >>,
    << "Enable", "contract", "testing" >>,
    << "MOCK", "libraries,", "test", "fixtures" >>,
    << "Mock", "service", "endpoints" >>,
    << "python", "-c", "import tests.mocks; print('OK')" >>) >> ELSE <<>>)
     \o (IF Needs("Frontend") THEN << RedSetupTask(Pad3(1),
    << "Setup", "React", "testing", "environment" >>,
    << "Enable", "frontend", "testing" >>,
    << "Vitest,", "Testing", "Library,", "jsdom" >>,
    << "Vitest", "config,", "test", "setup" >>,
    << "npm", "test", "--", "--run" >>) >> ELSE <<>>)

create_setup_tasks(test_cases) ==
  LET needs_database ==
        \E i \in DOMAIN test_cases : Contains(test_cases[i].test_type, "Backend")
      needs_mocks ==
        \E i \in DOMAIN test_cases : Contains(test_cases[i].test_type, "Contract")
      needs_frontend ==
        \E i \in DOMAIN test_cases : Contains(test_cases[i].test_type, "Frontend")
      c1 == 1
      c2 == IF needs_database THEN c1 + 1 ELSE c1
      c3 == IF needs_mocks THEN c2 + 1 ELSE c2
  IN (IF needs_database THEN << RedSetupTask(Pad3(c1),
    << "Setup", "test", "database", "for", "Django" >>,
    << "Enable", "backend", "integration", "tests" >>,
    << "DATABASE", "fixtures,", "Django", "test", "client" >>,
    << "DATABASES", "test", "settings,", "migrations" >>,
    << "pytest", "tests/integration", "--collect-only" >>) >> ELSE <<>>)
     \o (IF needs_mocks THEN << RedSetupTask(Pad3(c2),
    << "Setup", "API", "contract", "mocks" >>,
    << "Enable", "contract", "testing" >>,
    << "MOCK", "libraries,", "test", "fixtures" >>,
    << "Mock", "service", "endpoints" >>,
    << "python", "-c", "import tests.mocks; print('OK')" >>) >> ELSE <<>>)
     \o (IF needs_frontend THEN << RedSetupTask(Pad3(c3),
    << "Setup", "React", "testing", "environment" >>,
    << "Enable", "frontend", "testing" >>,
    << "Vitest,", "Testing", "Library,", "jsdom" >>,
    << "Vitest", "config,", "test", "setup" >>,
    << "npm", "test", "--", "--run" >>) >> ELSE <<>>)

RedTaskBlock(task) ==
  << Hdr("RED", task.id, "Write failing test", Tok(task.test_id)),
     Field("Traceability", task.traceability),
     Field("Test Type", task.test_type),
     Field("File Location", task.file_location),
     Field("Function Name", task.function_name),
     Field("Expected Failure", task.expected_failure),
     QField("Verify Failure", task.verify_failure),
     Blank >>

generate_red_phase_file(setup_tasks, red_tasks) ==
  Join(<< TextLine(<< "#", "Red", "Phase:", "Failing", "Test", "Implementation" >>),
          Blank >>
       \o (IF setup_tasks # <<>>
             THEN << TextLine(<< "##", "Infrastructure", "Setup", "Tasks" >>), Blank >>
                  \o Flatten([i \in DOMAIN setup_tasks |->
                      LET task == setup_tasks[i] IN
                      << Hdr("RED-SETUP", task.id, "", task.description),
     Field("Purpose", task.purpose),
     Field("Dependencies", task.dependencies),
     Field("Configuration", task.configuration),
     QField("Verify Setup", task.verify_setup),
     Blank >>])
             ELSE <<>>)
       \o << TextLine(<< "##", "Test", "Implementation", "Tasks" >>), Blank >>
       \o Flatten([i \in DOMAIN red_tasks |-> RedTaskBlock(red_tasks[i])])
       \o << TextLine(<< "##", "Validation", "Tasks" >>), Blank,
             Hdr("RED-VALIDATE", "001", "",
                 << "Verify", "all", "tests", "fail", "as", "expected" >>),
             QField("Command", << "pytest", "tests/", "--tb=line", "|", "grep", "FAILED" >>),
             Field("Expected", << "All", "RED-XXX", "tests", "show", "FAILED", "status" >>),
             Field("Success", << "No", "passing", "tests", "in", "red", "phase" >>),
             Blank >>)

\* RequirementsToRedTransformer.transform
transform_red(test_cases_content) ==
  LET Generate(test_cases) ==
        generate_red_phase_file(create_setup_tasks(test_cases),
                                create_red_tasks(test_cases))
  IN Generate(parse_test_cases(test_cases_content))


\* --------------------------------------------------- red_to_green.py

GreenIntegrationTask(id, component1, component2, purpose, configuration, dependencies, verify_integration) ==
  [id |-> id, component1 |-> component1, component2 |-> component2,
   purpose |-> purpose, configuration |-> configuration,
   dependencies |-> dependencies, verify_integration |-> verify_integration]

GreenConfigTask(id, description, purpose, commands, dependencies, verify) ==
  [id |-> id, description |-> description, purpose |-> purpose,
   commands |-> commands, dependencies |-> dependencies, verify |-> verify]

\* RED-(\d+): Write failing test \[(.*?)\]\n- Traceability: (.*?)\n- Test Type: (.*?)
\* \n- File Location: (.*?)\n- Function Name: (.*?)\n- Expected Failure: (.*?)
\* \n- Verify Failure: `(.*?)`
RedTestPattern ==
  Pattern("RED", "Write failing test", FALSE, "]",
          << El("Traceability", FALSE), El("Test Type", FALSE),
             El("File Location", FALSE), El("Function Name", FALSE),
             El("Expected Failure", FALSE), El("Verify Failure", TRUE) >>)

\* RedToGreenTransformer.parse_red_tasks: re.findall with re.MULTILINE.
parse_red_tasks(red_phase_content) ==
  LET Record(match) ==
        RedTask(Name("RED", match.id), Str(match.caps[1]), match.caps[2],
                match.caps[3], match.caps[4], match.caps[5], match.caps[6],
                match.caps[7])
      Records(matches) == [ i \in DOMAIN matches |-> Record(matches[i]) ]
  IN Records(FindAll(red_phase_content.lines, RedTestPattern, FALSE, 1))

\* re.search(r'REQ-\d+', traceability): the first requirement id in the text.
RECURSIVE extract_requirement_id(_)
extract_requirement_id(traceability) ==
  IF traceability = <<>> THEN "REQ-UNKNOWN"
  ELSE IF \E d \in DigitStrings : Head(traceability) = Name("REQ", d)
    THEN Head(traceability)
  ELSE extract_requirement_id(Tail(traceability))

\* '.lsf/memory/architecture-boundaries.md)' closing a component label
BoundariesRef == ".lsf/memory/architecture-boundaries.md)"

select_component(test_type, expected_failure) ==
  IF Contains(test_type, "Backend") THEN
    IF Contains(expected_failure, "Model") \/ Contains(expected_failure, "ImportError")
      THEN << "Django", "ORM", "(models.Model", "from", BoundariesRef >>
    ELSE IF Contains(expected_failure, "API") \/ Contains(expected_failure, "URLError")
      THEN << "Django", "API", "view", "(@api_view", "from", BoundariesRef >>
    ELSE IF Contains(expected_failure, "Task")
      THEN << "Celery", "task", "(@shared_task", "from", BoundariesRef >>
    ELSE << "Django", "function", "from", "existing", "patterns" >>
  ELSE IF Contains(test_type, "Frontend") THEN
    IF Contains(expected_failure, "Component")
      THEN << "React", "functional", "component", "(from", BoundariesRef >>
    ELSE IF Contains(expected_failure, "Hook")
      THEN << "React", "hooks", "(useState/useEffect", "from", BoundariesRef >>
    ELSE IF Contains(expected_failure, "Service")
      THEN << "Axios", "API", "client", "(from", BoundariesRef >>
    ELSE << "React", "component", "from", "existing", "patterns" >>
  ELSE << "Existing", "component", "from", ".lsf/memory/architecture-boundaries.md" >>

\* The stem matched by (\w+)\.test\.tsx in a path, "" if none.
RECURSIVE TestStem(_)
TestStem(path) ==
  IF Len(path) < 3 THEN ""
  ELSE IF path[2] = ".test" /\ path[3] = ".tsx" /\ ~IsDirPart(path[1]) THEN path[1]
  ELSE TestStem(Tail(path))

\* determine_file_location of red_to_green.py
green_file_location(test_location, test_type) ==
  IF Contains(test_type, "Backend") THEN
    IF Contains(test_location, "integration/test_")
      THEN IF Contains(test_type, "Model") THEN << "src/core/models.py" >>
           ELSE << "src/core/views.py" >>
    ELSE IF Contains(test_location, "contract/test_") THEN << "src/api/views.py" >>
    ELSE IF Contains(test_location, "unit/test_") THEN << "src/utils/functions.py" >>
    ELSE << "src/app.py" >>
  ELSE IF Contains(test_type, "Frontend") THEN
    IF Contains(test_location, "integration/")
      THEN IF TestStem(test_location) # ""
             THEN << "src/frontend/src/components/", TestStem(test_location), ".tsx" >>
           ELSE << "src/frontend/src/components/Component.tsx" >>
    ELSE IF Contains(test_location, "unit/")
      THEN << "src/frontend/src/utils/functions.ts" >>
    ELSE << "src/frontend/src/App.tsx" >>
  ELSE << "src/implementation.py" >>

determine_implementation(component, test_id) ==
  IF Contains(component, "models.Model")
    THEN Tok(test_id) \o << "model", "with", "required", "fields" >>
  ELSE IF Contains(component, "@api_view")
    THEN Tok(test_id) \o << "endpoint", "with", "validation" >>
  ELSE IF Contains(component, "@shared_task")
    THEN Tok(test_id) \o << "async", "task", "with", "error", "handling" >>
  ELSE IF HasPhrase(component, << "React", "functional", "component" >>)
    THEN Tok(test_id) \o << "component", "with", "props", "interface" >>
  ELSE IF HasPhrase(component, << "React", "hooks" >>)
    THEN Tok(test_id) \o << "hook", "with", "state", "management" >>
  ELSE IF Contains(component, "Axios")
    THEN Tok(test_id) \o << "service", "with", "API", "methods" >>
  ELSE << "Minimal", "implementation", "for" >> \o Tok(test_id)

determine_configuration(component, file_location) ==
  IF Contains(component, "models.Model")
    THEN << "Add", "to", "INSTALLED_APPS,", "run", "migrations" >>
  ELSE IF Contains(component, "@api_view")
    THEN << "Add", "URL", "pattern", "to", "urls.py" >>
  ELSE IF Contains(component, "@shared_task")
    THEN << "Import", "in", "celery.py", "autodiscover" >>
  ELSE IF Contains(component, "React")
    THEN << "Export", "from", "index.ts" >>
  ELSE << "None" >>

create_green_tasks(red_tasks) ==
  [ task_counter \in 1..Len(red_tasks) |->
    LET red_task  == red_tasks[task_counter]
        component == select_component(red_task.test_type, red_task.expected_failure)
        file_location ==
          green_file_location(red_task.file_location, red_task.test_type)
    IN [id |-> Pad3(task_counter),
        requirement_id |-> extract_requirement_id(red_task.traceability),
        red_task_id |-> red_task.id,
        traceability |-> red_task.traceability,
        component |-> component,
        file_location |-> file_location,
        implementation |-> determine_implementation(component, red_task.test_id),
        configuration |-> determine_configuration(component, file_location),
        verify_pass |-> Remove(red_task.verify_failure, "--tb=short")] ]

create_integration_tasks(green_tasks) ==
  LET has_models ==
        \E i \in DOMAIN green_tasks : Contains(green_tasks[i].component, "models.Model")
      has_api ==
        \E i \in DOMAIN green_tasks : Contains(green_tasks[i].component, "@api_view")
      has_frontend ==
        \E i \in DOMAIN green_tasks : Contains(green_tasks[i].component, "React")
      c2 == IF has_models THEN 2 ELSE 1
  IN (IF has_models
        THEN << GreenIntegrationTask(Pad3(1),
                  << "Django", "models" >>, << "Django", "admin" >>,
                  << "Enable", "admin", "interface", "for", "models" >>,
                  << "Register", "models", "in", "admin.py" >>,
                  << "Model", "implementations" >>,
                  << "python", "manage.py", "check" >>) >>
        ELSE <<>>)
     \o (IF has_api /\ has_frontend
           THEN << GreenIntegrationTask(Pad3(c2),
                     << "Django", "API" >>, << "React", "components" >>,
                     << "Connect", "backend", "API", "with", "frontend" >>,
                     << "CORS", "settings,", "API", "base", "URL" >>,
                     << "Backend", "API", "+", "Frontend", "service" >>,
                     << "tests/run_all_tests_parallelized.py" >>) >>
           ELSE <<>>)

\* create_config_tasks with one migration task for each task that uses the
\* model component.
create_config_tasks_per_model(green_tasks) ==
  LET models == SelectSeq(green_tasks,
                  LAMBDA task : Contains(task.component, "models.Model"))
  IN [task_counter \in DOMAIN models |->
        GreenConfigTask(Pad3(task_counter),
          << "database", "migrations" >>,
          << "Apply", "model", "changes", "to", "database" >>,
          << "python", "manage.py", "makemigrations", "&&", "python",
             "manage.py", "migrate" >>,
          << "Model", "implementations" >>,
          << "python", "manage.py", "showmigrations" >>)]

create_config_tasks(green_tasks) ==
  LET has_models ==
        \E i \in DOMAIN green_tasks : Contains(green_tasks[i].component, "models.Model")
  IN IF has_models
       THEN << GreenConfigTask(Pad3(1),
                 << "database", "migrations" >>,
                 << "Apply", "model", "changes", "to", "database" >>,
                 << "python", "manage.py", "makemigrations", "&&", "python",
                    "manage.py", "migrate" >>,
                 << "Model", "implementations" >>,
                 << "python", "manage.py", "showmigrations" >>) >>
       ELSE <<>>

\* GreenTaskBlock that writes the verify command without backticks.
GreenTaskBlockUnquoted(task) ==
  << Hdr2("GREEN", task.id, "Implement", Tok(task.requirement_id),
          Tok(task.red_task_id)),
     Field("Traceability", task.traceability),
     Field("Component", task.component),
     Field("File Location", task.file_location),
     Field("Implementation", task.implementation),
     Field("Configuration", task.configuration),
     Field("Verify Pass", task.verify_pass),
     Blank >>

GreenTaskBlock(task) ==
  << Hdr2("GREEN", task.id, "Implement", Tok(task.requirement_id),
          Tok(task.red_task_id)),
     Field("Traceability", task.traceability),
     Field("Component", task.component),
     Field("File Location", task.file_location),
     Field("Implementation", task.implementation),
     Field("Configuration", task.configuration),
     QField("Verify Pass", task.verify_pass),
     Blank >>

\* The tasks of a list that satisfy a test, in the order of the list.
RECURSIVE SelectTasks(_, _)
SelectTasks(tasks, keep) ==
  IF tasks = <<>> THEN <<>>
  ELSE (IF keep[1] THEN << Head(tasks) >> ELSE <<>>)
       \o SelectTasks(Tail(tasks), Tail(keep))

\* The implementation tasks listed under 'Backend Implementation Tasks'.
backend_tasks(green_tasks) ==
  SelectTasks(green_tasks,
    [i \in DOMAIN green_tasks |->
       Contains(Tok(green_tasks[i].red_task_id), "Backend")
       \/ Contains(green_tasks[i].component, "Django")])

\* The implementation tasks listed under 'Frontend Implementation Tasks'.
frontend_tasks(green_tasks) ==
  SelectTasks(green_tasks,
    [i \in DOMAIN green_tasks |->
       Contains(Tok(green_tasks[i].red_task_id), "Frontend")
       \/ Contains(green_tasks[i].component, "React")])

generate_green_phase_file(green_tasks, int_tasks, config_tasks) ==
  LET backend  == backend_tasks(green_tasks)
      frontend == frontend_tasks(green_tasks)
  IN Join(<< TextLine(<< "#", "Green", "Phase:", "Implementation", "to", "Pass",
                         "Tests" >>), Blank >>
       \o (IF backend # <<>>
             THEN << TextLine(<< "##", "Backend", "Implementation", "Tasks" >>), Blank >>
                  \o Flatten([i \in DOMAIN backend |-> GreenTaskBlock(backend[i])])
             ELSE <<>>)
       \o (IF frontend # <<>>
             THEN << TextLine(<< "##", "Frontend", "Implementation", "Tasks" >>), Blank >>
                  \o Flatten([i \in DOMAIN frontend |-> GreenTaskBlock(frontend[i])])
             ELSE <<>>)
       \o (IF int_tasks # <<>>
             THEN << TextLine(<< "##", "Integration", "Tasks" >>), Blank >>
                  \o Flatten([i \in DOMAIN int_tasks |->
                      LET task == int_tasks[i] IN
                      << Hdr2("GREEN-INT", task.id, "Integrate", task.component1, task.component2),
     Field("Purpose", task.purpose),
     Field("Configuration", task.configuration),
     Field("Dependencies", task.dependencies),
     QField("Verify Integration", task.verify_integration),
     Blank >>])
             ELSE <<>>)
       \o (IF config_tasks # <<>>
             THEN << TextLine(<< "##", "Configuration", "Tasks" >>), Blank >>
                  \o Flatten([i \in DOMAIN config_tasks |->
                      LET task == config_tasks[i] IN
                      << Hdr("GREEN-CONFIG", task.id, "Configure", task.description),
     Field("Purpose", task.purpose),
     QField("Commands", task.commands),
     Field("Dependencies", task.dependencies),
     QField("Verify", task.verify),
     Blank >>])
             ELSE <<>>))

\* RedToGreenTransformer.transform
transform_green(red_phase_content) ==
  LET Generate(green_tasks) ==
        generate_green_phase_file(green_tasks,
                                  create_integration_tasks(green_tasks),
                                  create_config_tasks(green_tasks))
  IN Generate(create_green_tasks(parse_red_tasks(red_phase_content)))


\* ------------------------------------------------------ task_parser.py

\* The TaskParser methods run re.findall with re.DOTALL on self.content.
TP_parse_red_setup_tasks(content) ==
  LET
      \* RED-SETUP-(\d+): (.*?)\n- Purpose: (.*?)\n- Dependencies: (.*?)
      \* \n- Configuration: (.*?)\n- Verify Setup: `(.*?)`
      pattern ==
    Pattern("RED-SETUP", "", FALSE, "any",
              << El("Purpose", FALSE), El("Dependencies", FALSE),
                 El("Configuration", FALSE), El("Verify Setup", TRUE) >>)
      Record(m) ==
         RedSetupTask(m.id, m.caps[1], m.caps[2], m.caps[3], m.caps[4], m.caps[5])
      Records(matches) == [ i \in DOMAIN matches |-> Record(matches[i]) ]
  IN Records(FindAll(content.lines, pattern, TRUE, 1))

TP_parse_red_test_tasks(content) ==
  LET Record(m) ==
        [id |-> m.id, test_id |-> m.caps[1], traceability |-> m.caps[2],
         test_type |-> m.caps[3], file_location |-> m.caps[4],
         function_name |-> m.caps[5], expected_failure |-> m.caps[6],
         verify_command |-> m.caps[7]]
      Records(matches) == [ i \in DOMAIN matches |-> Record(matches[i]) ]
  IN Records(FindAll(content.lines, RedTestPattern, TRUE, 1))

TP_parse_green_implementation_tasks(content) ==
  LET
      \* GREEN-(\d+): Implement \[(.*?)\] to pass \[(.*?)\]\n- Traceability: (.*?)
      \* \n- Component: (.*?)\n- File Location: (.*?)\n- Implementation: (.*?)
      \* \n- Configuration: (.*?)\n- Verify Pass: `(.*?)`
      pattern ==
    Pattern("GREEN", "Implement", TRUE, "]",
              << El("Traceability", FALSE), El("Component", FALSE),
                 El("File Location", FALSE), El("Implementation", FALSE),
                 El("Configuration", FALSE), El("Verify Pass", TRUE) >>)
      Record(m) ==
         [id |-> m.id, requirement_id |-> m.caps[1], red_task_id |-> m.caps[2],
          traceability |-> m.caps[3], component |-> m.caps[4],
          file_location |-> m.caps[5], implementation |-> m.caps[6],
          configuration |-> m.caps[7], verify_command |-> m.caps[8]]
      Records(matches) == [ i \in DOMAIN matches |-> Record(matches[i]) ]
  IN Records(FindAll(content.lines, pattern, TRUE, 1))

TP_parse_green_integration_tasks(content) ==
  LET
      \* GREEN-INT-(\d+): Integrate (.*?) with (.*?)\n- Purpose: (.*?)
      \* \n- Configuration: (.*?)\n- Dependencies: (.*?)\n- Verify Integration: `(.*?)`
      pattern ==
    Pattern("GREEN-INT", "Integrate", TRUE, "any",
              << El("Purpose", FALSE), El("Configuration", FALSE),
                 El("Dependencies", FALSE), El("Verify Integration", TRUE) >>)
      Record(m) ==
         GreenIntegrationTask(m.id, m.caps[1], m.caps[2], m.caps[3], m.caps[4],
                              m.caps[5], m.caps[6])
      Records(matches) == [ i \in DOMAIN matches |-> Record(matches[i]) ]
  IN Records(FindAll(content.lines, pattern, TRUE, 1))

TP_parse_green_config_tasks(content) ==
  LET
      \* GREEN-CONFIG-(\d+): Configure (.*?)\n- Purpose: (.*?)\n- Commands: `(.*?)`
      \* \n- Dependencies: (.*?)\n- Verify: `(.*?)`
      pattern ==
    Pattern("GREEN-CONFIG", "Configure", FALSE, "any",
              << El("Purpose", FALSE), El("Commands", TRUE),
                 El("Dependencies", FALSE), El("Verify", TRUE) >>)
      Record(m) ==
         GreenConfigTask(m.id, m.caps[1], m.caps[2], m.caps[3], m.caps[4], m.caps[5])
      Records(matches) == [ i \in DOMAIN matches |-> Record(matches[i]) ]
  IN Records(FindAll(content.lines, pattern, TRUE, 1))

TP_parse_green_skip_tasks(content) ==
  LET
      \* GREEN-SKIP-(\d+): Verify existing implementation for \[(.*?)\]\n- Reason: (.*?)
      \* \n- Component: (.*?)\n- Verification: (.*?)\n- Verify: `(.*?)`
      pattern ==
    Pattern("GREEN-SKIP", "Verify existing implementation for", FALSE, "]",
              << El("Reason", FALSE), El("Component", FALSE),
                 El("Verification", FALSE), El("Verify", TRUE) >>)
      Record(m) ==
         [id |-> m.id, requirement_id |-> m.caps[1], reason |-> m.caps[2],
          component |-> m.caps[3], verification |-> m.caps[4],
          verify_command |-> m.caps[5]]
      Records(matches) == [ i \in DOMAIN matches |-> Record(matches[i]) ]
  IN Records(FindAll(content.lines, pattern, TRUE, 1))

TP_parse_green_review_tasks(content) ==
  LET
      \* GREEN-REVIEW-(\d+): Review requirement \[(.*?)\] for implementation
      \* \n- Reason: (.*?)\n- Analysis: (.*?)\n- Recommendation: (.*?)\n- Status: (.*?)
      pattern ==
    Pattern("GREEN-REVIEW", "Review requirement", FALSE, "review",
              << El("Reason", FALSE), El("Analysis", FALSE),
                 El("Recommendation", FALSE), El("Status", FALSE) >>)
      Record(m) ==
         [id |-> m.id, requirement_id |-> m.caps[1], reason |-> m.caps[2],
          analysis |-> m.caps[3], recommendation |-> m.caps[4],
          status |-> m.caps[5]]
      Records(matches) == [ i \in DOMAIN matches |-> Record(matches[i]) ]
  IN Records(FindAll(content.lines, pattern, TRUE, 1))

TP_parse_red_tasks(content) ==
  [setup_tasks |-> TP_parse_red_setup_tasks(content),
   test_tasks  |-> TP_parse_red_test_tasks(content)]

TP_parse_green_tasks(content) ==
  [implementation_tasks |-> TP_parse_green_implementation_tasks(content),
   integration_tasks    |-> TP_parse_green_integration_tasks(content),
   config_tasks         |-> TP_parse_green_config_tasks(content),
   skip_tasks           |-> TP_parse_green_skip_tasks(content),
   review_tasks         |-> TP_parse_green_review_tasks(content)]

\* The index of the first ']' at or after from with no line end before it,
\* 0 if none: '.' does not match a line end here.
RECURSIVE CloseFrom(_, _)
CloseFrom(text, from) ==
  IF from > Len(text) THEN 0
  ELSE IF text[from] = "]" THEN from
  ELSE IF text[from] = NL THEN 0
  ELSE CloseFrom(text, from + 1)

\* len(re.findall(r'\[(.*?)\]', text)): the bracketed groups of the text,
\* counted left to right without overlap.
RECURSIVE BracketGroups(_, _)
BracketGroups(text, from) ==
  LET i == IndexFrom(text, "[", from) IN
    IF i = 0 THEN 0
    ELSE LET j == CloseFrom(text, i + 1) IN
      IF j = 0 THEN BracketGroups(text, i + 1)
      ELSE 1 + BracketGroups(text, j + 1)

\* The least number of bracketed groups of a complete chain.
MinGroups == 3

\* The error strings of the tasks with an incomplete chain.
RECURSIVE TraceErrors(_, _)
TraceErrors(tasks, prefix) ==
  IF tasks = <<>> THEN <<>>
  ELSE (IF BracketGroups(Head(tasks).traceability, 1) < MinGroups
          THEN << Name(prefix, Head(tasks).id) \o ": Incomplete traceability chain" >>
          ELSE <<>>)
       \o TraceErrors(Tail(tasks), prefix)

\* validate_traceability that checks the red test tasks only.
TP_validate_red_traceability(content) ==
  TraceErrors(TP_parse_red_test_tasks(content), "RED")

TP_validate_traceability(content) ==
  LET Errors(red_tasks, green_tasks) ==
        TraceErrors(red_tasks.test_tasks, "RED")
        \o TraceErrors(green_tasks.implementation_tasks, "GREEN")
  IN Errors(TP_parse_red_tasks(content), TP_parse_green_tasks(content))

\* The ids of the tasks of a list, each as '<prefix>-<id>'.
Ids(tasks, prefix) == [ i \in DOMAIN tasks |-> Name(prefix, tasks[i].id) ]

\* get_task_execution_order with the integration tasks ahead of the
\* configuration tasks.
TP_integration_before_config(content) ==
  LET Order(red_tasks, green_tasks) ==
        Ids(red_tasks.setup_tasks, "RED-SETUP")
        \o Ids(red_tasks.test_tasks, "RED")
        \o Ids(green_tasks.implementation_tasks, "GREEN")
        \o Ids(green_tasks.integration_tasks, "GREEN-INT")
        \o Ids(green_tasks.config_tasks, "GREEN-CONFIG")
        \o Ids(green_tasks.skip_tasks, "GREEN-SKIP")
        \o Ids(green_tasks.review_tasks, "GREEN-REVIEW")
  IN Order(TP_parse_red_tasks(content), TP_parse_green_tasks(content))

TP_get_task_execution_order(content) ==
  LET Order(red_tasks, green_tasks) ==
        Ids(red_tasks.setup_tasks, "RED-SETUP")
        \o Ids(red_tasks.test_tasks, "RED")
        \o Ids(green_tasks.implementation_tasks, "GREEN")
        \o Ids(green_tasks.config_tasks, "GREEN-CONFIG")
        \o Ids(green_tasks.integration_tasks, "GREEN-INT")
        \o Ids(green_tasks.skip_tasks, "GREEN-SKIP")
        \o Ids(green_tasks.review_tasks, "GREEN-REVIEW")
  IN Order(TP_parse_red_tasks(content), TP_parse_green_tasks(content))


\* ------------------------------------------------------- input documents

\* The bounds of the input documents: the number of blocks (records or
\* loose lines) an authored document is put together from.
MaxSpecBlocks == 3
MaxTestBlocks == 3
MaxRedBlocks  == 3
MaxTaskBlocks == 3

\* The sequences of length at most n over a set.
SeqsUpTo(S, n) == UNION { [1..k -> S] : k \in 0..n }

\* Success criteria of a human specification.
Criteria ==
  { << "-", "user", "should", "create", "a", "Model" >>,
    << "-", "UI", "must", "display", "list" >>,
    << "-", "keep", "state" >> }

\* The blocks of a human specification: an outcome with its first criterion,
\* a further criterion line, an outcome header without its criteria line.
SpecBlockKinds ==
  { [b |-> "outcome", c |-> c] : c \in Criteria }
  \cup { [b |-> "criterion", c |-> c] : c \in Criteria }
  \cup { [b |-> "bare", c |-> <<>>] }

SpecBlock(blk, n) ==
  CASE blk.b = "outcome" ->
         << Hdr("OUT", Dec(n), "", << "Users", "manage", "things" >>),
            Field("Success Criteria", Empty),
            TextLine(blk.c) >>
    [] blk.b = "criterion" -> << TextLine(blk.c) >>
    [] OTHER -> << Hdr("OUT", Dec(n), "", << "Unfinished", "outcome" >>) >>

\* The human specifications of the model.
SpecDocs ==
  { Doc(Flatten([n \in DOMAIN bs |-> SpecBlock(bs[n], n)]), nl) :
      bs \in SeqsUpTo(SpecBlockKinds, MaxSpecBlocks), nl \in BOOLEAN }

\* The test cases of an authored test-cases document: the header bracket
\* holds two ids, one id or none; the type and input vary.
TestBlockKinds ==
  { [ids |-> 2, type |-> << "Backend", "Integration" >>,
     input |-> << "Model.objects", "create(name=Test)" >>],
    [ids |-> 2, type |-> << "Frontend", "Contract" >>,
     input |-> << "<Component", "id={1}", "/>" >>],
    [ids |-> 1, type |-> << "Load", "Unit" >>,
     input |-> << "Standard", "test", "input" >>],
    [ids |-> 0, type |-> << "Backend", "Contract" >>,
     input |-> << "POST", "/api/resource/", "{name:Test}" >>],
    [ids |-> 2, type |-> << "Integration" >>,
     input |-> << "run", "the", "Task" >>],
    [ids |-> 2, type |-> << "Frontend", "Unit" >>,
     input |-> << "Standard", "test", "input" >>],
    \* a header whose field lines are missing
    [ids |-> 3, type |-> <<>>, input |-> <<>>] }

TestBlock(blk, n) ==
  IF blk.ids = 3
    THEN << Hdr("TEST", Pad3(n), "[", << Name("REQ", Pad3(n)), Arrow, "OUT-1" >>),
            Blank >>
  ELSE << Hdr("TEST", Pad3(n), "[",
              CASE blk.ids = 2 -> << Name("REQ", Pad3(n)), Arrow, "OUT-1" >>
                [] blk.ids = 1 -> << Name("REQ", Pad3(n)) >>
                [] OTHER       -> <<>>),
          Field("Type", blk.type),
          Field("Input", blk.input),
          Field("Expected", << "Operation", "completes", "successfully" >>),
          QField("Verify", << "pytest", "tests/x.py" >>),
          Blank >>

TestDocs ==
  { Join(<< TextLine(<< "#", "Test", "Cases" >>), Blank >>
         \o Flatten([n \in DOMAIN bs |-> TestBlock(bs[n], n)])) :
      bs \in SeqsUpTo(TestBlockKinds, MaxTestBlocks) }

\* The red test tasks of an authored red-phase document: test type and
\* expected failure reach every branch of select_component.
RedBlockKinds ==
  { [type |-> << "Backend", "Integration" >>,
     fail |-> << "ImportError", "(", "Model", "not", "implemented", ")" >>],
    [type |-> << "Backend", "Contract" >>,
     fail |-> << "URLError", "(", "API", "endpoint", "not", "implemented", ")" >>],
    [type |-> << "Backend", "Unit" >>,
     fail |-> << "Task", "not", "registered" >>],
    [type |-> << "Backend", "Integration" >>,
     fail |-> << "Function/Module", "not", "implemented" >>],
    [type |-> << "Frontend", "Integration" >>,
     fail |-> << "Component", "not", "implemented" >>],
    [type |-> << "Frontend", "Unit" >>,
     fail |-> << "Hook", "not", "implemented" >>],
    [type |-> << "Frontend", "Unit" >>,
     fail |-> << "Service", "not", "implemented" >>],
    [type |-> << "Integration" >>,
     fail |-> << "Function/Module", "not", "implemented" >>] }

RedBlock(blk, n) ==
  LET test_id == Name("TEST", Pad3(n))
      loc == red_file_location(blk.type, test_id)
      fn  == determine_function_name(test_id, blk.type)
  IN RedTaskBlock(
       RedTask(Pad3(n), test_id, Chain(test_id, Name("REQ", Pad3(n)), "OUT-1"),
               blk.type, loc, fn, blk.fail, generate_verify_command(loc, fn)))

RedDocs ==
  { Join(<< TextLine(<< "#", "Red", "Phase" >>), Blank >>
         \o Flatten([n \in DOMAIN bs |-> RedBlock(bs[n], n)])) :
      bs \in SeqsUpTo(RedBlockKinds, MaxRedBlocks) }


\* ------------------------------------------ constitutional_validator.py

ComplianceViolation(principle, severity, location, description, detail) ==
  [principle |-> principle, severity |-> severity, location |-> location,
   description |-> description, detail |-> detail]

\* The words of a header title.
LabelWords(label) ==
  CASE label = "Write failing test" -> << "Write", "failing", "test" >>
    [] label = "Verify existing implementation for"
         -> << "Verify", "existing", "implementation", "for" >>
    [] label = "Review requirement" -> << "Review", "requirement" >>
    [] label \in {"", "["} -> <<>>
    [] OTHER -> << label >>

\* The words of a line, for the substring tests on the content.
Words(l) ==
  CASE l.k = "hdr"   -> << Name(l.kind, l.id) \o ":" >> \o LabelWords(l.label)
                        \o l.v \o l.w
    [] l.k = "field" -> << "-", l.label \o ":" >> \o l.v
    [] OTHER         -> l.v

\* phrase.lower() in content.lower(): a phrase of several words lies in one
\* line; a single word may lie inside a longer word.
InLineLower(l, phrase) ==
  IF Len(phrase) = 1 THEN ContainsLower(Words(l), phrase[1])
  ELSE HasPhrase([i \in DOMAIN Words(l) |-> LowerTok(Words(l)[i])], phrase)

InContentLower(content, phrase) ==
  \E i \in DOMAIN content.lines : InLineLower(content.lines[i], phrase)

\* kw in content
InContent(content, kw) ==
  \E i \in DOMAIN content.lines : Contains(Words(content.lines[i]), kw)

\* len(text): the characters of a text, a blank between two words.
RECURSIVE Chars(_)
Chars(text) ==
  IF text = <<>> THEN 0
  ELSE Len(Head(text)) + (IF Len(text) > 1 THEN 1 ELSE 0) + Chars(Tail(text))

\* A line that starts with RED-<digits>: or GREEN-<digits>:
IsTaskHeader(l) == l.k = "hdr" /\ l.kind \in {"RED", "GREEN"}

\* The lines of the content that satisfy a test, in order.
LinesWhere(content, keep) ==
  SelectSeq([i \in DOMAIN content.lines |-> i], LAMBDA i : keep[i])

\* re.findall(r'^(RED-\d+|GREEN-\d+):', content, re.MULTILINE): the task
\* header lines.
TaskHeaders(content) ==
  LinesWhere(content, [i \in DOMAIN content.lines |-> IsTaskHeader(content.lines[i])])

\* The limits of the checks.
DescriptionLimit    == 200
ImplementationLimit == 20
TaskCeiling         == 25

\* The violations of the patterns of a list that the content holds, in the
\* order of the list.
PatternViolations(content, patterns, principle, severity, location, description) ==
  LET found == SelectSeq(patterns, LAMBDA p : InContentLower(content, p)) IN
    [i \in DOMAIN found |->
       ComplianceViolation(principle, severity, location, description,
                           Str(found[i]))]

\* The pattern (RED-\d+|GREEN-\d+):\s*(.*?)(?=\n-|\n\n|$) captures the text
\* after 'RED-n:' on a task header line: '$' matches at every line end
\* under re.MULTILINE, so the description ends with the line.
_validate_context_efficiency(content, file_path) ==
  LET tasks == TaskHeaders(content)
      description(l) == LabelWords(l.label) \o l.v \o l.w
      long  == SelectSeq(tasks, LAMBDA i :
                 Chars(description(content.lines[i])) > DescriptionLimit)
      implementations ==
        LinesWhere(content, [i \in DOMAIN content.lines |->
          content.lines[i].k = "field" /\ content.lines[i].label = "Implementation"])
  IN [i \in DOMAIN long |->
        ComplianceViolation("Context Efficiency", "warning",
          file_path \o ":" \o Name(content.lines[long[i]].kind, content.lines[long[i]].id),
          "Task description exceeds 200 characters", "")]
     \o (IF Len(implementations) > ImplementationLimit
           THEN << ComplianceViolation("Context Efficiency", "warning", file_path,
                     "High number of implementation tasks may indicate context inefficiency",
                     "") >>
           ELSE <<>>)

custom_indicators ==
  << << "custom", "implementation" >>, << "new", "framework" >>,
     << "additional", "dependency" >>, << "build", "from", "scratch" >>,
     << "create", "new" >>, << "implement", "custom" >> >>

\* One violation for every place an indicator occurs, the indicators in the
\* order of the list and the places in the order of the content.
RECURSIVE IndicatorViolations(_, _, _)
IndicatorViolations(content, file_path, k) ==
  IF k > Len(custom_indicators) THEN <<>>
  ELSE LET at == LinesWhere(content, [i \in DOMAIN content.lines |->
                   InLineLower(content.lines[i], custom_indicators[k])]) IN
    [i \in DOMAIN at |->
       ComplianceViolation("Minimalism", "error",
         file_path \o ":line" \o Dec(at[i]),
         "Detected potential custom implementation",
         Str(custom_indicators[k]))]
    \o IndicatorViolations(content, file_path, k + 1)

\* _validate_minimalism that grades the task-count violation by the count:
\* a warning just above the ceiling, an error beyond.
_validate_minimalism_graded(content, file_path) ==
  LET task_count == Len(TaskHeaders(content)) IN
    (IF task_count > TaskCeiling
       THEN << ComplianceViolation("Minimalism",
                 IF task_count > TaskCeiling + 1 THEN "error" ELSE "warning",
                 file_path,
                 "Excessive task count indicates complexity creep", "") >>
       ELSE <<>>)
    \o IndicatorViolations(content, file_path, 1)

_validate_minimalism(content, file_path) ==
  LET task_count == Len(TaskHeaders(content)) IN
    (IF task_count > TaskCeiling
       THEN << ComplianceViolation("Minimalism", "error", file_path,
                 "Excessive task count indicates complexity creep", "") >>
       ELSE <<>>)
    \o IndicatorViolations(content, file_path, 1)
    \o PatternViolations(content, << << "abstract", "factory" >>, << "observer", "pattern" >>,
     << "strategy", "pattern" >>, << "microservice" >>, << "distributed" >>,
     << "scalable", "architecture" >> >>, "Minimalism", "warning",
                         file_path, "Complex pattern detected")

_validate_reasonable_defaults(content, file_path) ==
  PatternViolations(content, << << "custom", "orm" >>, << "custom", "auth" >>, << "custom", "router" >>,
     << "custom", "validation" >>, << "handwritten", "sql" >>,
     << "custom", "serialization" >> >>, "Reasonable Defaults",
                    "warning", file_path, "Non-standard implementation detected")
  \o (IF InContent(content, "Django") /\ ~InContent(content, "models.Model")
         /\ InContentLower(content, << "model" >>)
        THEN << ComplianceViolation("Reasonable Defaults", "warning", file_path,
                  "Django project not using Django ORM for models", "") >>
        ELSE <<>>)

_validate_agent_centric_content(content, file_path) ==
  LET task_lines == TaskHeaders(content)
      traceability_lines ==
        LinesWhere(content, [i \in DOMAIN content.lines |->
          content.lines[i].k = "field" /\ content.lines[i].label = "Traceability"])
  IN PatternViolations(content, << << "please" >>, << "thank", "you" >>, << "we", "should" >>, << "let's" >>,
     << "i", "think" >>, << "in", "my", "opinion" >>, << "feel", "free" >>,
     << "don't", "hesitate" >> >>, "Agent-centric Content",
                       "warning", file_path, "Human-oriented language detected")
     \o (IF Len(task_lines) > Len(traceability_lines)
           THEN << ComplianceViolation("Agent-centric Content", "error", file_path,
                     "Some tasks missing traceability information", "") >>
           ELSE <<>>)

_validate_focus(content, file_path) ==
  PatternViolations(content, << << "business", "strategy" >>, << "market", "analysis" >>,
     << "stakeholder", "meeting" >>, << "user", "research" >>,
     << "marketing" >>, << "sales" >>, << "pricing" >>,
     << "business", "case" >>, << "roi", "analysis" >>,
     << "stakeholder", "buy-in" >> >>, "Focus", "error", file_path,
                    "Non-software-production content detected")
  \o (IF ~\E w \in {"test", "implement", "configure", "integrate"} :
            InContentLower(content, << w >>)
        THEN << ComplianceViolation("Focus", "error", file_path,
                  "Content lacks implementation focus", "") >>
        ELSE <<>>)

_validate_boundaries(content, file_path) ==
  LET has(w) == InContentLower(content, << w >>)
      cross_stack_violations ==
        << << "django", "frontend", "Django components in frontend" >>,
           << "react", "backend", "React components in backend" >>,
           << "jsx", "django", "JSX in Django code" >>,
           << "models.py", "react", "Django models in React" >> >>
      test_mixing_patterns ==
        << << "pytest", "vitest", "Mixing Python and JavaScript test frameworks" >>,
           << "unittest", "jest", "Mixing different test frameworks" >> >>
      cross == SelectSeq(cross_stack_violations,
                 LAMBDA t : has(t[1]) /\ has(t[2]) /\ ~has("integration"))
      mixed == SelectSeq(test_mixing_patterns, LAMBDA t : has(t[1]) /\ has(t[2]))
  IN [i \in DOMAIN cross |->
        ComplianceViolation("Boundaries", "error", file_path, cross[i][3], "")]
     \o [i \in DOMAIN mixed |->
        ComplianceViolation("Boundaries", "warning", file_path, mixed[i][3], "")]

_validate_drift_detection(content, file_path) ==
  LET \* re.findall(r'REQ-\d+', content)
      req_references ==
        \E i \in DOMAIN content.lines : \E j \in DOMAIN Words(content.lines[i]) :
          \E d \in DigitStrings : Words(content.lines[i])[j] = Name("REQ", d)
      task_count == Len(TaskHeaders(content))
  IN (IF task_count > 0 /\ ~req_references
        THEN << ComplianceViolation("Drift Detection", "error", file_path,
                  "Tasks not linked to requirements (REQ-XXX)", "") >>
        ELSE <<>>)
     \o PatternViolations(content,
          << << "while", "we're", "at", "it" >>, << "also", "implement" >>,
             << "might", "as", "well" >>, << "additional", "feature" >>,
             << "enhance", "with" >>, << "extend", "to", "include" >> >>,
          "Drift Detection", "warning", file_path, "Potential scope creep detected")

\* re.findall(r'^(RED-\d+|GREEN-\d+):.*?(?=^(?:RED-\d+|GREEN-\d+|$))', content,
\* re.MULTILINE | re.DOTALL): the pattern has one group, so findall returns
\* the text of that group, the id before the colon, for every match.  A task
\* header matches when a later line start is followed by a task id, by a line
\* end (an empty line) or by the end of the text (the text ends with a line
\* end).
VerificationTasks(content) ==
  LET n == Len(content.lines)
      ends(i) == \/ \E j \in (i + 1)..n :
                      IsTaskHeader(content.lines[j]) \/ content.lines[j].k = "blank"
                 \/ content.nl
      at == LinesWhere(content, [i \in DOMAIN content.lines |->
              IsTaskHeader(content.lines[i]) /\ ends(i)])
  IN [i \in DOMAIN at |-> Name(content.lines[at[i]].kind, content.lines[at[i]].id)]

\* re.match(r'^(RED-\d+|GREEN-\d+):', task): the id when the text starts with
\* an id and a colon, None otherwise.
MatchTaskId(task) ==
  IF \E k \in {"RED", "GREEN"}, d \in DigitStrings : task = Name(k, d) \o ":"
    THEN CHOOSE id \in { Name(k, d) : k \in {"RED", "GREEN"}, d \in DigitStrings } :
           task = id \o ":"
  ELSE "None"

\* re.findall(r'Verify.*?:`(.*?)`', content): the commands that follow a
\* colon with no blank between; the field lines '- Verify Pass: `...`' hold a
\* blank there and do not match.
VerifyCommands(content) ==
  LET at == LinesWhere(content, [i \in DOMAIN content.lines |->
              content.lines[i].k = "text" /\ content.lines[i].q]) IN
    [i \in DOMAIN at |-> content.lines[at[i]].v]

\* _validate_verification: the violations it adds, and whether it raises
\* AttributeError (re.match(...) is None for a task text without its colon,
\* and None has no group()); the loop stops at the first task that raises.
RECURSIVE MissingVerification(_, _, _)
MissingVerification(tasks, k, file_path) ==
  IF k > Len(tasks) THEN [violations |-> <<>>, raised |-> FALSE]
  ELSE IF Contains(<< tasks[k] >>, "Verify")
    THEN MissingVerification(tasks, k + 1, file_path)
  ELSE LET task_id == MatchTaskId(tasks[k]) IN
    IF task_id = "None" THEN [violations |-> <<>>, raised |-> TRUE]
    ELSE LET rest == MissingVerification(tasks, k + 1, file_path) IN
      [violations |->
         << ComplianceViolation("Verification", "error", file_path \o ":" \o task_id,
              "Task missing verification command", "") >> \o rest.violations,
       raised |-> rest.raised]

_validate_verification(content, file_path) ==
  LET missing == MissingVerification(VerificationTasks(content), 1, file_path)
      commands == VerifyCommands(content)
      odd == SelectSeq(commands, LAMBDA command :
               ~(Contains(command, "pytest") \/ HasPhrase(command, << "npm", "test" >>)
                 \/ Contains(command, "python")))
  IN IF missing.raised THEN missing
     ELSE [violations |->
             missing.violations
             \o [i \in DOMAIN odd |->
                   ComplianceViolation("Verification", "warning", file_path,
                     "Verification command may not be executable", Str(odd[i]))],
           raised |-> FALSE]

\* ---------------------------------------------- task documents (inputs)

\* A traceability text with g bracketed groups; one group is the chain the
\* transformers write, '[A->B->C]'.
Traceability(g, n) ==
  LET t == Name("TEST", Pad3(n))
      r == Name("REQ", Pad3(n))
  IN CASE g = 0 -> << t, Arrow, r >>
       [] g = 1 -> Chain(t, r, "OUT-1")
       [] g = 2 -> << "[", t, "]", Arrow, "[", r, "]" >>
       [] g = 3 -> << "[", t, "]", Arrow, "[", r, "]", Arrow, "[", "OUT-1", "]" >>
       [] OTHER -> << "[", t, "]", Arrow, "[", r, "]", Arrow, "[", "OUT-1", "]",
                      Arrow, "[", "SPEC", "]" >>

\* The records of an authored task document: the seven kinds of record, the
\* test and implementation tasks with traceability texts of 0 to 4 groups.
TaskBlockKinds ==
  { [kind |-> "RED", g |-> g] : g \in {1, 2, 3} }
  \cup { [kind |-> "GREEN", g |-> g] : g \in {0, 3, 4} }
  \cup { [kind |-> k, g |-> 0] :
           k \in {"RED-SETUP", "GREEN-INT", "GREEN-CONFIG", "GREEN-SKIP",
                  "GREEN-REVIEW"} }

TaskBlock(blk, n) ==
  LET id  == Pad3(n)
      cmd == << "pytest", "tests/x.py" >>
  IN CASE blk.kind = "RED" ->
            RedTaskBlock(RedTask(id, Name("TEST", id), Traceability(blk.g, n),
              << "Backend", "Integration" >>, << "tests/x.py" >>,
              << "test_x", "()" >>, << "Model", "not", "implemented" >>, cmd))
       [] blk.kind = "GREEN" ->
            GreenTaskBlock(
              [id |-> id, requirement_id |-> Name("REQ", id),
               red_task_id |-> Name("RED", id),
               traceability |-> Traceability(blk.g, n),
               component |-> CASE blk.g = 0 -> << "Django", "ORM" >>
                               [] blk.g = 3 -> << "Flask" >>
                               [] OTHER -> << "React" >>,
               file_location |-> << "src/core/models.py" >>,
               implementation |-> << "Minimal", "implementation" >>,
               configuration |-> << "None" >>, verify_pass |-> cmd])
       [] blk.kind = "RED-SETUP" ->
            << Hdr("RED-SETUP", id, "", << "Setup", "test", "database" >>),
               Field("Purpose", << "Enable", "tests" >>),
               Field("Dependencies", << "fixtures" >>),
               Field("Configuration", << "settings" >>),
               QField("Verify Setup", cmd), Blank >>
       [] blk.kind = "GREEN-INT" ->
            << Hdr2("GREEN-INT", id, "Integrate", << "Django", "API" >>,
                    << "React", "components" >>),
               Field("Purpose", << "Connect" >>),
               Field("Configuration", << "CORS" >>),
               Field("Dependencies", << "Backend", "API" >>),
               QField("Verify Integration", cmd), Blank >>
       [] blk.kind = "GREEN-CONFIG" ->
            << Hdr("GREEN-CONFIG", id, "Configure", << "database", "migrations" >>),
               Field("Purpose", << "Apply", "changes" >>),
               QField("Commands", << "python", "manage.py", "migrate" >>),
               Field("Dependencies", << "Model", "implementations" >>),
               QField("Verify", cmd), Blank >>
       [] blk.kind = "GREEN-SKIP" ->
            << Hdr("GREEN-SKIP", id, "Verify existing implementation for",
                   << Name("REQ", id) >>),
               Field("Reason", << "Already", "implemented" >>),
               Field("Component", << "Django", "ORM" >>),
               Field("Verification", << "Tests", "pass" >>),
               QField("Verify", cmd), Blank >>
       [] OTHER ->
            << Hdr("GREEN-REVIEW", id, "Review requirement", << Name("REQ", id) >>),
               Field("Reason", << "Unclear" >>),
               Field("Analysis", << "Needs", "review" >>),
               Field("Recommendation", << "Clarify" >>),
               Field("Status", << "PENDING" >>), Blank >>

\* The authored task documents of the model: the n-th record carries the id n.
TaskDocs ==
  { Join(<< TextLine(<< "#", "Tasks" >>), Blank >>
         \o Flatten([n \in DOMAIN bs |-> TaskBlock(bs[n], n)])) :
      bs \in SeqsUpTo(TaskBlockKinds, MaxTaskBlocks) }

\* ----------------------------------------- validated documents (inputs)

\* The largest number of task headers of a validated document.
MaxTasks == 27

\* A word of more than 200 characters.
LongWord ==
  LET w == "a-very-long-description-of-what-the-task-has-to-achieve-"
  IN w \o w \o w \o w

\* The task records of a validated document: the first two are RED test
\* tasks, the others GREEN implementation tasks; marked: the record holds its
\* 'Verify ...' line; traced: it holds its 'Traceability' line.
ValidatedTask(n, marked, traced, verbose) ==
  LET id  == Pad3(n)
      cmd == << "pytest", "tests/x.py" >>
      trace == IF traced THEN << Field("Traceability", Traceability(1, n)) >>
               ELSE <<>>
  IN IF n <= 2
       THEN << Hdr("RED", id, "Write failing test",
                   << Name("TEST", id) >> \o (IF verbose THEN << LongWord >> ELSE <<>>)) >>
            \o trace
            \o (IF marked THEN << QField("Verify Failure", cmd) >> ELSE <<>>)
            \o << Blank >>
     ELSE << Hdr2("GREEN", id, "Implement", << Name("REQ", id) >>,
                  << Name("RED", id) >>) >>
          \o trace
          \o << Field("Implementation", << "Minimal", "implementation" >>) >>
          \o (IF marked THEN << QField("Verify Pass", cmd) >> ELSE <<>>)
          \o << Blank >>

\* The prose a validated document opens with.
Prose(shape) ==
  CASE shape = "chatty"   -> << TextLine(<< "Please", "create", "new", "Django", "model" >>) >>
    [] shape = "offtopic" -> << TextLine(<< "market", "analysis", "and", "pricing" >>) >>
    [] shape = "mixed"    -> << TextLine(<< "Django", "frontend", "pytest", "vitest" >>) >>
    \* Verify:`make` with no blank after the colon
    [] shape = "tight"    -> << Line("text", "", "", "", << "make" >>, Empty, TRUE) >>
    [] OTHER              -> <<>>

Shapes == {"plain", "untraced", "verbose", "chatty", "offtopic", "mixed", "tight"}

\* Which tasks hold the verification line.
Marks == {"none", "all", "first", "rest"}

\* A validated document: k task records after a title, the text ending with
\* a line end or not.
ValidatedDoc(k, m, shape, nl) ==
  Doc(LET lines ==
            << TextLine(<< "#", "Phase" >>) >> \o Prose(shape)
            \o Flatten([n \in 1..k |->
                 ValidatedTask(n,
                   m = "all" \/ (m = "first" /\ n = 1) \/ (m = "rest" /\ n > 1),
                   shape # "untraced", shape = "verbose")])
      IN IF k = 0 THEN lines ELSE SubSeq(lines, 1, Len(lines) - 1),
      nl)

\* The validated documents of the model.
ValidatedDocs ==
  { ValidatedDoc(k, m, shape, nl) :
      k \in 0..MaxTasks, m \in Marks, shape \in Shapes, nl \in BOOLEAN }

\* ------------------------------------------------------ the allow-list

\* The allow-list document: missing, unreadable, or a text that names two
\* components.
AllowList ==
  Doc(<< TextLine(<< "#", "Architecture", "Boundaries" >>),
         TextLine(<< "-", "Django", "ORM", "(models.Model)" >>),
         TextLine(<< "-", "React", "functional", "component" >>) >>, TRUE)

BoundariesFiles == { NoDoc, Unreadable, AllowList }

\* component not in boundaries: the label lies in the allow-list text; a
\* label of several words lies in one line, a single word may lie inside a
\* longer word; the empty label lies in every text.
InBoundaries(component, boundaries) ==
  \/ component = <<>>
  \/ \E i \in DOMAIN boundaries.lines :
    IF Len(component) = 1
      THEN Contains(Words(boundaries.lines[i]), component[1])
    ELSE HasPhrase(Words(boundaries.lines[i]), component)

\* TaskParser.validate_component_boundaries: a missing allow-list file gives
\* one error and no task is parsed; another failure of the read leaves the
\* call as an exception; else one error for each implementation task whose
\* component is not in the allow-list text.
TP_validate_component_boundaries(content, boundaries) ==
  LET Errors(tasks) ==
        LET absent == SelectSeq(tasks,
                        LAMBDA task : ~InBoundaries(task.component, boundaries))
        IN [i \in DOMAIN absent |->
              Name("GREEN", absent[i].id) \o ": Component '"
              \o Str(absent[i].component)
              \o "' not found in architecture boundaries"]
  IN IF boundaries = NoDoc
       THEN [errors |-> << "Architecture boundaries file not found" >>,
             raised |-> FALSE]
     ELSE IF boundaries = Unreadable THEN [errors |-> <<>>, raised |-> TRUE]
     ELSE [errors |-> Errors(TP_parse_green_tasks(content).implementation_tasks),
           raised |-> FALSE]

\* The policy document: present with some text, or missing.
PolicyFiles ==
  { NoDoc, Doc(<< TextLine(<< "#", "Constitution" >>) >>, TRUE) }

\* _load_constitution: the text of the policy file; a missing file gives
\* the empty text and no violation.
_load_constitution(file) ==
  IF file = NoDoc THEN <<>> ELSE TextOf(file.lines, 1, Len(file.lines))

\* ---------------------------------------------------------------- state

VARIABLES
  \* the documents on disk (NoDoc: the file does not exist)
  human_spec_md, requirements_md, test_cases_md, red_phase_md, green_phase_md,
  \* the stage of the pipeline that runs next
  stage,
  \* TaskParser: self.content, the query that ran, and what it returned
  content, query, listing, errors,
  \* TaskParser: the records parse_red_tasks or parse_green_tasks returned
  parsed,
  \* ConstitutionalValidator: the file validate_file reads, the check that
  \* runs next, self.violations, the list validate_file returned, and
  \* whether the call ended with an exception
  phase_file, check, violations, returned, raised,
  \* the policy document on disk and self.constitution_content
  constitution_file, constitution_content,
  \* the allow-list document on disk
  boundaries_file,
  \* the validator's command line: its options and the status it exits with
  argv, exit_status,
  \* select_component: the text it is given and the component it returned
  criterion, selected,
  \* a transformer run again on the same input: the number of runs so far
  \* and what the run before the last returned (for a stage's main: the
  \* output files as they were before it ran)
  runs, previous,
  \* what a stage's main printed to sys.stderr
  stderr,
  \* one validator called several times: the list objects created so far,
  \* the one self.violations refers to, and each validate_file call (its
  \* file, where it stands, the list object it returned)
  heap, self_violations, call,
  \* a red verification command and the green one made from it
  verify_failure, verify_pass,
  \* ConstitutionalValidatorTool: whether the import of the validator
  \* succeeded, and the dict execute returned
  available, result,
  \* SoftwareFactory: where run stands, self.state.current_phase,
  \* self.state.artifacts (the names recorded), the phases started so far
  \* in order, and the FactoryResult run returned
  factory_pc, current_phase, artifacts, started, factory_result

vars == << human_spec_md, requirements_md, test_cases_md, red_phase_md,
           green_phase_md, stage, content, query, listing, errors, parsed,
           phase_file, check, violations, returned, raised,
           constitution_file, constitution_content, boundaries_file,
           argv, exit_status, criterion, selected, runs, previous, stderr,
           heap, self_violations, call, verify_failure, verify_pass,
           available, result, factory_pc, current_phase, artifacts, started,
           factory_result >>

pipeline_vars  == << human_spec_md, requirements_md, test_cases_md,
                     red_phase_md, green_phase_md, stage >>
parser_vars    == << content, query, listing, errors, parsed >>
validator_vars == << phase_file, check, violations, returned, raised,
                     constitution_file, constitution_content >>
calls_vars     == << heap, self_violations, call >>
tool_vars      == << available, result >>
factory_vars   == << factory_pc, current_phase, artifacts, started,
                     factory_result >>
rest_vars      == << argv, exit_status, criterion, selected, runs, previous,
                     stderr, calls_vars, verify_failure, verify_pass,
                     tool_vars, factory_vars >>

\* The parts of the state a run does not use.
NoPipeline ==
  /\ human_spec_md = NoDoc /\ requirements_md = NoDoc /\ test_cases_md = NoDoc
  /\ red_phase_md = NoDoc /\ green_phase_md = NoDoc /\ stage = "none"

NoParser ==
  /\ content = NoDoc /\ query = "none" /\ listing = <<>> /\ errors = <<>>
  /\ parsed = <<>>

NoValidator ==
  /\ phase_file = NoDoc /\ check = "none" /\ violations = <<>>
  /\ returned = <<>> /\ raised = FALSE
  /\ constitution_file = NoDoc /\ constitution_content = <<>>

\* No factory has been constructed.
NoFactory ==
  /\ factory_pc = "none" /\ current_phase = "" /\ artifacts = {}
  /\ started = <<>> /\ factory_result = <<>>

\* The rest of the state: the validator's main (exit_status holds the status
\* once main has exited), select_component, and the repeated runs.
NoRest ==
  /\ argv = <<>> /\ exit_status = <<>> /\ criterion = <<>> /\ selected = <<>>
  /\ runs = 0 /\ previous = <<>> /\ stderr = <<>>
  /\ heap = <<>> /\ self_violations = 0 /\ call = <<>>
  /\ verify_failure = <<>> /\ verify_pass = <<>>
  /\ available = TRUE /\ result = <<>> /\ NoFactory

\* ------------------------------------------------------------- pipeline

\* A requirements.md written by hand: stage 2 reads it and uses no line
\* of it.
AuthoredRequirements == Doc(<< TextLine(<< "#", "Requirements" >>) >>, TRUE)

\* A run of the pipeline starts from a human specification, or from an
\* authored test-cases document, or from an authored red-phase document.
InitPipeline ==
  /\ NoParser /\ NoValidator /\ NoRest /\ boundaries_file = NoDoc
  /\ green_phase_md = NoDoc
  /\ \/ /\ stage = "spec_to_requirements"
        /\ human_spec_md \in SpecDocs /\ requirements_md = NoDoc
        /\ test_cases_md = NoDoc /\ red_phase_md = NoDoc
     \/ /\ stage = "requirements_to_red"
        /\ human_spec_md = NoDoc /\ requirements_md = AuthoredRequirements
        /\ test_cases_md \in TestDocs /\ red_phase_md = NoDoc
     \/ /\ stage = "red_to_green"
        /\ human_spec_md = NoDoc /\ requirements_md = NoDoc
        /\ test_cases_md = NoDoc
        /\ red_phase_md \in RedDocs

\* spec_to_requirements.py main: transform and write both documents.
SpecToRequirements ==
  /\ stage = "spec_to_requirements"
  /\ LET out == transform_spec(human_spec_md) IN
       /\ requirements_md' = out[1]
       /\ test_cases_md' = out[2]
  /\ stage' = "requirements_to_red"
  /\ UNCHANGED << human_spec_md, red_phase_md, green_phase_md, parser_vars,
                  validator_vars, rest_vars, boundaries_file >>

\* requirements_to_red.py main: transform and write red-phase.md.
RequirementsToRed ==
  /\ stage = "requirements_to_red"
  /\ red_phase_md' = transform_red(test_cases_md)
  /\ stage' = "red_to_green"
  /\ UNCHANGED << human_spec_md, requirements_md, test_cases_md, green_phase_md,
                  parser_vars, validator_vars, rest_vars,
                  boundaries_file >>

\* red_to_green.py main: transform and write green-phase.md.
RedToGreen ==
  /\ stage = "red_to_green"
  /\ green_phase_md' = transform_green(red_phase_md)
  /\ stage' = "done"
  /\ UNCHANGED << human_spec_md, requirements_md, test_cases_md, red_phase_md,
                  parser_vars, validator_vars, rest_vars,
                  boundaries_file >>

NextPipeline == SpecToRequirements \/ RequirementsToRed \/ RedToGreen

Spec == InitPipeline /\ [][NextPipeline]_vars

\* ------------------------------------------- stage 1: select_component

\* The largest number of words of a text given to select_component.
MaxWords == 2

\* The words of those texts: the keywords of the table, 'frontend', a word
\* that holds no keyword, and two words that hold a keyword inside.
CriterionWords ==
  { component_map[k][1] : k \in DOMAIN component_map }
  \cup { "frontend", "user", "build", "statement" }

\* select_component is given a text.
InitSelect ==
  /\ NoPipeline /\ NoParser /\ NoValidator /\ boundaries_file = NoDoc
  /\ argv = <<>> /\ exit_status = <<>> /\ runs = 0 /\ previous = <<>>
  /\ stderr = <<>> /\ heap = <<>> /\ self_violations = 0 /\ call = <<>>
  /\ verify_failure = <<>> /\ verify_pass = <<>>
  /\ available = TRUE /\ result = <<>> /\ NoFactory
  /\ criterion \in SeqsUpTo(CriterionWords, MaxWords)
  /\ selected = <<>>

SelectComponent ==
  /\ selected = <<>>
  /\ selected' = select_component_spec(criterion)
  /\ UNCHANGED << criterion, argv, exit_status, runs, previous, stderr,
                  calls_vars, verify_failure, verify_pass,
                  boundaries_file, pipeline_vars, parser_vars, validator_vars,
                  tool_vars, factory_vars >>

SpecSelect == InitSelect /\ [][SelectComponent]_vars

\* ------------------------------------------- transformers run again

\* The number of runs of a transformer on one input.
MaxRuns == 2

\* A transformer and its input document; nothing has run.
InitRerun ==
  /\ InitPipeline
  /\ runs = 0 /\ previous = <<>>

\* A run of requirements_to_red.py whose list of setup tasks outlives the
\* run: a later run appends to what the earlier run left.
RunRequirementsToRedSharedList ==
  /\ stage = "requirements_to_red" /\ runs < MaxRuns
  /\ previous' = << red_phase_md >>
  /\ LET Generate(test_cases) ==
           generate_red_phase_file(
             IF runs = 0 THEN create_setup_tasks(test_cases)
             ELSE create_setup_tasks(test_cases) \o create_setup_tasks(test_cases),
             create_red_tasks(test_cases))
     IN red_phase_md' = Generate(parse_test_cases(test_cases_md))
  /\ runs' = runs + 1
  /\ UNCHANGED << human_spec_md, requirements_md, test_cases_md, green_phase_md,
                  stage, argv, exit_status, criterion, selected, stderr,
                  calls_vars,
                  verify_failure, verify_pass, parser_vars,
                  validator_vars, boundaries_file,
                  tool_vars, factory_vars >>

\* SpecToRequirementsTransformer(spec_path).transform(), once more on the
\* same file.
RunSpecToRequirements ==
  /\ stage = "spec_to_requirements" /\ runs < MaxRuns
  /\ previous' = << requirements_md, test_cases_md >>
  /\ LET Write(out) == requirements_md' = out[1] /\ test_cases_md' = out[2]
     IN Write(transform_spec(human_spec_md))
  /\ runs' = runs + 1
  /\ UNCHANGED << human_spec_md, red_phase_md, green_phase_md, stage, argv,
                  exit_status, criterion, selected, stderr, calls_vars,
                  verify_failure, verify_pass, parser_vars,
                  validator_vars, boundaries_file,
                  tool_vars, factory_vars >>

\* RequirementsToRedTransformer(test_cases_path).transform(), once more.
RunRequirementsToRed ==
  /\ stage = "requirements_to_red" /\ runs < MaxRuns
  /\ previous' = << red_phase_md >>
  /\ red_phase_md' = transform_red(test_cases_md)
  /\ runs' = runs + 1
  /\ UNCHANGED << human_spec_md, requirements_md, test_cases_md, green_phase_md,
                  stage, argv, exit_status, criterion, selected, stderr,
                  calls_vars,
                  verify_failure, verify_pass, parser_vars,
                  validator_vars, boundaries_file,
                  tool_vars, factory_vars >>

\* RedToGreenTransformer(red_phase_path).transform(), once more.
RunRedToGreen ==
  /\ stage = "red_to_green" /\ runs < MaxRuns
  /\ previous' = << green_phase_md >>
  /\ green_phase_md' = transform_green(red_phase_md)
  /\ runs' = runs + 1
  /\ UNCHANGED << human_spec_md, requirements_md, test_cases_md, red_phase_md,
                  stage, argv, exit_status, criterion, selected, stderr,
                  calls_vars,
                  verify_failure, verify_pass, parser_vars,
                  validator_vars, boundaries_file,
                  tool_vars, factory_vars >>

NextRerun == RunSpecToRequirements \/ RunRequirementsToRed \/ RunRedToGreen

SpecRerun == InitRerun /\ [][NextRerun]_vars

\* ------------------------------------------------ the mains of the stages

\* Path.read_text raises for a file that is missing or cannot be read.
Readable(file) == file # NoDoc /\ file # Unreadable

\* __init__ of the stage 1 and stage 3 transformers: self.boundaries is read
\* when the allow-list path exists, and a path that exists may be unreadable.
BoundariesRead(boundaries) == boundaries # Unreadable

\* What a main leaves behind: the output documents, the exit status and
\* what it printed to sys.stderr.
Outcome(written, status, printed) ==
  [written |-> written, status |-> status, printed |-> printed]

\* main of requirements_to_red.py that opens the output file for writing
\* before the transformer is constructed: a failed read leaves it empty.
main_red_open_first(requirements, test_cases, old) ==
  IF Readable(requirements) /\ Readable(test_cases)
    THEN Outcome(<< transform_red(test_cases) >>, 0, <<>>)
  ELSE Outcome(<< Doc(<< >>, FALSE) >>, 1, << "Error" >>)

\* main of spec_to_requirements.py: old are the two output files as they
\* are before the run.
main_spec(spec, boundaries, old) ==
  IF Readable(spec) /\ BoundariesRead(boundaries)
    THEN Outcome(transform_spec(spec), 0, <<>>)
  ELSE Outcome(old, 1, << "Error" >>)

\* main of requirements_to_red.py
main_red(requirements, test_cases, old) ==
  IF Readable(requirements) /\ Readable(test_cases)
    THEN Outcome(<< transform_red(test_cases) >>, 0, <<>>)
  ELSE Outcome(old, 1, << "Error" >>)

\* main of red_to_green.py
main_green(red_phase, boundaries, old) ==
  IF Readable(red_phase) /\ BoundariesRead(boundaries)
    THEN Outcome(<< transform_green(red_phase) >>, 0, <<>>)
  ELSE Outcome(old, 1, << "Error" >>)

\* An output file left by an earlier run.
StaleDoc == Doc(<< TextLine(<< "#", "Earlier", "run" >>) >>, TRUE)

\* What may lie at the path of an input before a stage runs.
Inputs(docs) == docs \cup { NoDoc, Unreadable }

\* A stage is started on files of which any may be missing or unreadable,
\* with or without output files of an earlier run.
InitStage ==
  /\ NoParser /\ NoValidator /\ NoRest
  /\ boundaries_file \in BoundariesFiles
  /\ \/ /\ stage = "spec_to_requirements"
        /\ human_spec_md \in Inputs(SpecDocs)
        /\ requirements_md \in { NoDoc, StaleDoc }
        /\ test_cases_md \in { NoDoc, StaleDoc }
        /\ red_phase_md = NoDoc /\ green_phase_md = NoDoc
     \/ /\ stage = "requirements_to_red"
        /\ human_spec_md = NoDoc
        /\ requirements_md \in Inputs({ AuthoredRequirements })
        /\ test_cases_md \in Inputs(TestDocs)
        /\ red_phase_md \in { NoDoc, StaleDoc } /\ green_phase_md = NoDoc
     \/ /\ stage = "red_to_green"
        /\ human_spec_md = NoDoc /\ requirements_md = NoDoc
        /\ test_cases_md = NoDoc
        /\ red_phase_md \in Inputs(RedDocs)
        /\ green_phase_md \in { NoDoc, StaleDoc }

MainSpecToRequirements ==
  /\ stage = "spec_to_requirements" /\ exit_status = <<>>
  /\ LET Exit(out) ==
           /\ requirements_md' = out.written[1]
           /\ test_cases_md' = out.written[2]
           /\ exit_status' = << out.status >>
           /\ stderr' = out.printed
     IN Exit(main_spec(human_spec_md, boundaries_file,
                       << requirements_md, test_cases_md >>))
  /\ previous' = << requirements_md, test_cases_md >>
  /\ UNCHANGED << human_spec_md, red_phase_md, green_phase_md, stage, argv,
                  criterion, selected, runs, calls_vars, verify_failure,
                  verify_pass, parser_vars, validator_vars,
                  boundaries_file,
                  tool_vars, factory_vars >>

MainRequirementsToRed ==
  /\ stage = "requirements_to_red" /\ exit_status = <<>>
  /\ LET Exit(out) ==
           /\ red_phase_md' = out.written[1]
           /\ exit_status' = << out.status >>
           /\ stderr' = out.printed
     IN Exit(main_red(requirements_md, test_cases_md, << red_phase_md >>))
  /\ previous' = << red_phase_md >>
  /\ UNCHANGED << human_spec_md, requirements_md, test_cases_md,
                  green_phase_md, stage, argv, criterion, selected, runs,
                  calls_vars, verify_failure, verify_pass,
                  parser_vars, validator_vars, boundaries_file,
                  tool_vars, factory_vars >>

MainRedToGreen ==
  /\ stage = "red_to_green" /\ exit_status = <<>>
  /\ LET Exit(out) ==
           /\ green_phase_md' = out.written[1]
           /\ exit_status' = << out.status >>
           /\ stderr' = out.printed
     IN Exit(main_green(red_phase_md, boundaries_file, << green_phase_md >>))
  /\ previous' = << green_phase_md >>
  /\ UNCHANGED << human_spec_md, requirements_md, test_cases_md, red_phase_md,
                  stage, argv, criterion, selected, runs, calls_vars,
                  verify_failure, verify_pass, parser_vars,
                  validator_vars, boundaries_file,
                  tool_vars, factory_vars >>

NextStage == MainSpecToRequirements \/ MainRequirementsToRed \/ MainRedToGreen

SpecStage == InitStage /\ [][NextStage]_vars

\* ------------------------------- stage 3: the green verification command

\* In the documents of the pipeline a command is a sequence of words and the
\* flag is one word.  Here a command is a text cut into pieces that follow
\* one another with nothing in between, a blank being a piece of its own, so
\* that the flag may also begin or end inside a word: '--tb=short' is the
\* piece '--tb=' followed by the piece 'short'.
Pieces == { "pytest", " ", "--tb=", "short", "x.py" }

\* The longest command, in pieces.
MaxPieces == 4

\* '--tb=short' in text
HasFlag(text) ==
  \E i \in 1..(Len(text) - 1) : text[i] = "--tb=" /\ text[i + 1] = "short"

\* text.replace('--tb=short', ''): one pass from the left over the
\* occurrences that do not overlap; what the removals bring together is
\* not looked at again.
RECURSIVE replace(_)
replace(text) ==
  IF text = <<>> THEN <<>>
  ELSE IF Len(text) >= 2 /\ text[1] = "--tb=" /\ text[2] = "short"
    THEN replace(SubSeq(text, 3, Len(text)))
  ELSE << Head(text) >> \o replace(Tail(text))

\* text.strip()
RECURSIVE strip(_)
strip(text) ==
  IF text = <<>> THEN <<>>
  ELSE IF Head(text) = " " THEN strip(Tail(text))
  ELSE IF text[Len(text)] = " " THEN strip(SubSeq(text, 1, Len(text) - 1))
  ELSE text

\* create_green_tasks: verify_pass of the green task made from a red task.
green_verify_pass(red_verify_failure) == strip(replace(red_verify_failure))

\* parse_red_tasks has read a red task: its verify_failure is the text
\* between the backticks, stripped.
InitVerify ==
  /\ NoPipeline /\ NoParser /\ NoValidator /\ boundaries_file = NoDoc
  /\ argv = <<>> /\ exit_status = <<>> /\ criterion = <<>> /\ selected = <<>>
  /\ runs = 0 /\ previous = <<>> /\ stderr = <<>>
  /\ heap = <<>> /\ self_violations = 0 /\ call = <<>>
  /\ \E text \in SeqsUpTo(Pieces, MaxPieces) :
       text # <<>> /\ verify_failure = strip(text)
  /\ verify_pass = <<>>
  /\ available = TRUE /\ result = <<>> /\ NoFactory

CreateGreenTask ==
  /\ verify_pass = <<>> /\ verify_failure # <<>>
  /\ verify_pass' = green_verify_pass(verify_failure)
  /\ UNCHANGED << verify_failure, pipeline_vars, parser_vars, validator_vars,
                  boundaries_file, argv, exit_status, criterion, selected,
                  runs, previous, stderr, calls_vars,
                  tool_vars, factory_vars >>

SpecVerify == InitVerify /\ [][CreateGreenTask]_vars

\* ----------------------------------------------------------- TaskParser

\* TaskParser(file_path): the content of an authored task document.
InitParser ==
  /\ NoPipeline /\ NoValidator /\ NoRest
  /\ boundaries_file \in BoundariesFiles
  /\ content \in TaskDocs
  /\ query = "none" /\ listing = <<>> /\ errors = <<>> /\ parsed = <<>>

GetTaskExecutionOrder ==
  /\ query = "none"
  /\ listing' = TP_get_task_execution_order(content)
  /\ query' = "order"
  /\ UNCHANGED << content, errors, parsed, pipeline_vars, validator_vars,
                  rest_vars, boundaries_file >>

ValidateTraceability ==
  /\ query = "none"
  /\ errors' = TP_validate_traceability(content)
  /\ query' = "validate"
  /\ UNCHANGED << content, listing, parsed, pipeline_vars, validator_vars,
                  rest_vars, boundaries_file >>

\* validate_component_boundaries(boundaries_file); when the read raises,
\* nothing is returned.
ValidateComponentBoundaries ==
  /\ query = "none"
  /\ LET Return(out) ==
           /\ errors' = out.errors
           /\ query' = IF out.raised THEN "boundaries raised" ELSE "boundaries"
     IN Return(TP_validate_component_boundaries(content, boundaries_file))
  /\ UNCHANGED << content, listing, parsed, pipeline_vars, validator_vars,
                  rest_vars, boundaries_file >>

NextParser ==
  GetTaskExecutionOrder \/ ValidateTraceability \/ ValidateComponentBoundaries

SpecParser == InitParser /\ [][NextParser]_vars

\* ------------------------------------------------- TaskParser: records

\* The largest number of records of a document given to the record parsers.
MaxRecords == 3

\* The records of those documents: RED test records and GREEN implementation
\* records, each whole, or with its second field line missing, or with its
\* second and third field lines swapped.
RecordShapes ==
  { [kind |-> k, shape |-> f] :
      k \in {"RED", "GREEN"}, f \in {"whole", "missing", "swapped"} }

\* The n-th record of a document; its values carry its id.
RecordBlock(r, n) ==
  LET id == Pad3(n)
      block ==
        IF r.kind = "RED"
          THEN RedTaskBlock(RedTask(id, Name("TEST", id), Traceability(3, n),
                 << "Backend", id >>, << "tests/" \o id \o ".py" >>,
                 << "test_" \o id >>, << "Model", id, "not", "implemented" >>,
                 << "pytest", "tests/" \o id \o ".py" >>))
        ELSE GreenTaskBlock(
               [id |-> id, requirement_id |-> Name("REQ", id),
                red_task_id |-> Name("RED", id),
                traceability |-> Traceability(3, n),
                component |-> << "Django", id >>,
                file_location |-> << "src/" \o id \o ".py" >>,
                implementation |-> << "Minimal", id >>,
                configuration |-> << "None", id >>,
                verify_pass |-> << "pytest", "tests/" \o id \o ".py" >>])
  IN CASE r.shape = "missing" -> SubSeq(block, 1, 2) \o SubSeq(block, 4, Len(block))
       [] r.shape = "swapped" -> SubSeq(block, 1, 2) \o << block[4], block[3] >>
                                 \o SubSeq(block, 5, Len(block))
       [] OTHER -> block

RecordDocs ==
  { Join(<< TextLine(<< "#", "Tasks" >>), Blank >>
         \o Flatten([n \in DOMAIN rs |-> RecordBlock(rs[n], n)])) :
      rs \in SeqsUpTo(RecordShapes, MaxRecords) }

\* TaskParser(file_path) on a document of such records.
InitRecords ==
  /\ NoPipeline /\ NoValidator /\ NoRest /\ boundaries_file = NoDoc
  /\ content \in RecordDocs
  /\ query = "none" /\ listing = <<>> /\ errors = <<>> /\ parsed = <<>>

ParseRedTasks ==
  /\ query = "none"
  /\ parsed' = TP_parse_red_tasks(content).test_tasks
  /\ query' = "red"
  /\ UNCHANGED << content, listing, errors, pipeline_vars, validator_vars,
                  rest_vars, boundaries_file >>

ParseGreenTasks ==
  /\ query = "none"
  /\ parsed' = TP_parse_green_tasks(content).implementation_tasks
  /\ query' = "green"
  /\ UNCHANGED << content, listing, errors, pipeline_vars, validator_vars,
                  rest_vars, boundaries_file >>

NextRecords == ParseRedTasks \/ ParseGreenTasks

SpecRecords == InitRecords /\ [][NextRecords]_vars

\* ------------------------------------------ TaskParser: review records

\* The largest number of GREEN-REVIEW records of a document.
MaxReviews == 3

\* The dispositions written in a review record.
ReviewKinds ==
  { [recommendation |-> r, status |-> s] :
      r \in { << "Clarify" >>, << "Split", "requirement" >> },
      s \in { << "PENDING" >>, << "NEEDS", "DECISION" >> } }

\* The n-th review record of a document; reason and analysis carry its id.
ReviewBlock(r, n) ==
  << Hdr("GREEN-REVIEW", Pad3(n), "Review requirement",
         << Name("REQ", Pad3(n)) >>),
     Field("Reason", << "Unclear", Pad3(n) >>),
     Field("Analysis", << "Needs", "review", Pad3(n) >>),
     Field("Recommendation", r.recommendation),
     Field("Status", r.status), Blank >>

ReviewDocs ==
  { Join(<< TextLine(<< "#", "Tasks" >>), Blank >>
         \o Flatten([n \in DOMAIN rs |-> ReviewBlock(rs[n], n)])) :
      rs \in SeqsUpTo(ReviewKinds, MaxReviews) }

\* TaskParser(file_path) on a document of review records.
InitReview ==
  /\ NoPipeline /\ NoValidator /\ NoRest /\ boundaries_file = NoDoc
  /\ content \in ReviewDocs
  /\ query = "none" /\ listing = <<>> /\ errors = <<>> /\ parsed = <<>>

\* parse_green_tasks, of which the review tasks are kept.
ParseGreenReviewTasks ==
  /\ query = "none"
  /\ parsed' = TP_parse_green_tasks(content).review_tasks
  /\ query' = "green review"
  /\ UNCHANGED << content, listing, errors, pipeline_vars, validator_vars,
                  rest_vars, boundaries_file >>

SpecReview == InitReview /\ [][ParseGreenReviewTasks]_vars

\* ----------------------------------------------- ConstitutionalValidator

\* The path of the validated file.
file_path == "phase.md"

\* ConstitutionalValidator(): no violations yet; the file to validate is a
\* readable document.
InitValidator ==
  /\ NoPipeline /\ NoParser /\ NoRest /\ boundaries_file = NoDoc
  /\ constitution_file \in PolicyFiles
  /\ constitution_content = _load_constitution(constitution_file)
  /\ phase_file \in ValidatedDocs
  /\ check = "idle" /\ violations = <<>> /\ returned = <<>> /\ raised = FALSE

\* validate_file: reset self.violations and read the file.
ValidateFile ==
  /\ check = "idle"
  /\ violations' = <<>>
  /\ check' = "context_efficiency"
  /\ UNCHANGED << phase_file, returned, raised, constitution_file,
                  constitution_content, pipeline_vars, parser_vars, rest_vars,
                  boundaries_file >>

\* A check that appends its violations and hands over to the next one.
RunCheck(this, found, next) ==
  /\ check = this
  /\ violations' = violations \o found
  /\ check' = next
  /\ UNCHANGED << phase_file, returned, raised, constitution_file,
                  constitution_content, pipeline_vars, parser_vars, rest_vars,
                  boundaries_file >>

ContextEfficiency ==
  RunCheck("context_efficiency",
           _validate_context_efficiency(phase_file, file_path), "minimalism")

Minimalism ==
  RunCheck("minimalism", _validate_minimalism(phase_file, file_path),
           "reasonable_defaults")

ReasonableDefaults ==
  RunCheck("reasonable_defaults",
           _validate_reasonable_defaults(phase_file, file_path),
           "agent_centric_content")

AgentCentricContent ==
  RunCheck("agent_centric_content",
           _validate_agent_centric_content(phase_file, file_path), "focus")

Focus ==
  RunCheck("focus", _validate_focus(phase_file, file_path), "boundaries")

Boundaries ==
  RunCheck("boundaries", _validate_boundaries(phase_file, file_path),
           "drift_detection")

DriftDetection ==
  RunCheck("drift_detection", _validate_drift_detection(phase_file, file_path),
           "verification")

\* The last check: when it raises, the exception leaves validate_file and
\* nothing is returned.
Verification ==
  /\ check = "verification"
  /\ LET out == _validate_verification(phase_file, file_path) IN
       /\ violations' = violations \o out.violations
       /\ raised' = out.raised
       /\ check' = IF out.raised THEN "raised" ELSE "return"
  /\ UNCHANGED << phase_file, returned, constitution_file, constitution_content,
                  pipeline_vars, parser_vars, rest_vars, boundaries_file >>

\* return self.violations
Return ==
  /\ check = "return"
  /\ returned' = violations
  /\ check' = "returned"
  /\ UNCHANGED << phase_file, violations, raised, constitution_file,
                  constitution_content, pipeline_vars, parser_vars, rest_vars,
                  boundaries_file >>

NextValidator ==
  \/ ValidateFile \/ ContextEfficiency \/ Minimalism \/ ReasonableDefaults
  \/ AgentCentricContent \/ Focus \/ Boundaries \/ DriftDetection
  \/ Verification \/ Return

SpecValidator == InitValidator /\ [][NextValidator]_vars

\* ------------------------------------------------- validator: main

\* validate_file as one call: the violations in self.violations when the
\* call ends, and whether it ended with an exception.  Reading a missing
\* or unreadable file raises before any check runs.
validate_file(file, path) ==
  LET Finish(found, out) ==
        [violations |-> found \o out.violations, raised |-> out.raised]
  IN IF file \in {NoDoc, Unreadable}
       THEN [violations |-> <<>>, raised |-> TRUE]
     ELSE Finish(_validate_context_efficiency(file, path)
                 \o _validate_minimalism(file, path)
                 \o _validate_reasonable_defaults(file, path)
                 \o _validate_agent_centric_content(file, path)
                 \o _validate_focus(file, path)
                 \o _validate_boundaries(file, path)
                 \o _validate_drift_detection(file, path),
                 _validate_verification(file, path))

\* re.findall(r'- Component:\s*(.*?)(?=\n|$)', content, re.MULTILINE): one
\* value for each '- Component:' field.  \s* also runs over line ends, so
\* after a field with no value the capture is the text of the next line
\* that is not blank, and empty when no such line follows.
Components(text) ==
  LET lines == text.lines
      Later(i) == { j \in DOMAIN lines : j > i /\ LineText(lines[j]) # <<>> }
      Next(i)  == IF Later(i) = {} THEN <<>>
                  ELSE LineText(lines[CHOOSE j \in Later(i) :
                                        \A n \in Later(i) : j <= n])
      at == LinesWhere(text,
              [i \in DOMAIN lines |->
                 lines[i].k = "field" /\ lines[i].label = "Component"])
  IN [n \in DOMAIN at |->
        IF lines[at[n]].v # <<>> THEN lines[at[n]].v ELSE Next(at[n])]

\* validate_architecture_compliance: a missing file gives one critical
\* violation; another failure of a read leaves the call as an exception;
\* else one error for each captured component that is not empty and not in
\* the allow-list text.
validate_architecture_compliance(file, boundaries, path) ==
  LET Absent(components) ==
        SelectSeq(components,
                  LAMBDA c : c # <<>> /\ ~InBoundaries(c, boundaries))
      Report(absent) ==
        [i \in DOMAIN absent |->
           ComplianceViolation("Architecture Boundaries", "error", path,
             "Component not found in architecture boundaries",
             Str(absent[i]))]
      Raise == [violations |-> <<>>, raised |-> TRUE]
      NotFound ==
        [violations |->
           << ComplianceViolation("Architecture Boundaries", "critical", path,
                "Required file not found", "") >>,
         raised |-> FALSE]
  IN IF file = Unreadable THEN Raise
     ELSE IF file = NoDoc THEN NotFound
     ELSE IF boundaries = Unreadable THEN Raise
     ELSE IF boundaries = NoDoc THEN NotFound
     ELSE [violations |-> Report(Absent(Components(file))), raised |-> FALSE]

\* The component labels of the authored records: two that the allow-list
\* names, one that it does not name, and the label left empty.
ComponentLabels == { << "Django", "ORM" >>, << "React" >>, << "Flask" >>, <<>> }

\* The largest number of records of a document given to main.
MaxMainTasks == 2

\* A green-phase document with one implementation record for each label.
ComponentDoc(labels) ==
  Join(<< TextLine(<< "#", "Green", "Phase" >>), Blank >>
       \o Flatten([n \in DOMAIN labels |->
            GreenTaskBlock(
              [id |-> Pad3(n), requirement_id |-> Name("REQ", Pad3(n)),
               red_task_id |-> Name("RED", Pad3(n)),
               traceability |-> Traceability(3, n),
               component |-> labels[n],
               file_location |-> << "src/core/models.py" >>,
               implementation |-> << "Minimal", "implementation" >>,
               configuration |-> << "None" >>,
               verify_pass |-> << "pytest", "tests/x.py" >>])]))

\* The files main is run on: a missing path, an unreadable path, validated
\* documents of up to MaxMainTasks tasks, a document beyond the task
\* ceiling, and green-phase documents that declare components.
MainFiles ==
  { NoDoc, Unreadable, ValidatedDoc(TaskCeiling + 1, "all", "plain", TRUE) }
  \cup { ValidatedDoc(k, m, shape, nl) :
           k \in 0..MaxMainTasks, m \in Marks, shape \in Shapes, nl \in BOOLEAN }
  \cup { ComponentDoc(labels) :
           labels \in SeqsUpTo(ComponentLabels, MaxMainTasks) \ { <<>> } }

\* sys.exit(1 if critical_errors else 0)
exit_code(found) ==
  IF \E i \in DOMAIN found : found[i].severity \in {"critical", "error"}
    THEN 1 ELSE 0

\* main of constitutional_validator.py after the options are parsed: the
\* list it reports, self.violations, whether the except clause ran, and
\* the exit status.
main(options, file, boundaries) ==
  LET Exit(own, found) ==
        [violations |-> own, returned |-> found, raised |-> FALSE,
         status |-> exit_code(found)]
      Except(own) ==
        [violations |-> own, returned |-> <<>>, raised |-> TRUE, status |-> 1]
      ArchitectureOnly(arch) ==
        IF arch.raised THEN Except(<<>>) ELSE Exit(<<>>, arch.violations)
      Also(found, arch) ==
        IF arch.raised THEN Except(found)
        ELSE Exit(found \o arch.violations, found \o arch.violations)
      Both(out) ==
        IF out.raised THEN Except(out.violations)
        ELSE Also(out.violations,
                  validate_architecture_compliance(file, boundaries, file_path))
  IN IF "--architecture-only" \in { options[i] : i \in DOMAIN options }
       THEN ArchitectureOnly(
              validate_architecture_compliance(file, boundaries, file_path))
     ELSE Both(validate_file(file, file_path))

\* The command lines of the model.
Options == { <<>>, << "--architecture-only" >>, << "--json" >> }

\* python constitutional_validator.py <phase-file> [OPTIONS]: the files on
\* disk and the options; nothing has run.
InitMain ==
  /\ NoPipeline /\ NoParser
  /\ phase_file \in MainFiles
  /\ constitution_file \in PolicyFiles
  /\ boundaries_file \in BoundariesFiles
  /\ argv \in Options
  /\ criterion = <<>> /\ selected = <<>> /\ runs = 0 /\ previous = <<>>
  /\ stderr = <<>> /\ heap = <<>> /\ self_violations = 0 /\ call = <<>>
  /\ verify_failure = <<>> /\ verify_pass = <<>>
  /\ available = TRUE /\ result = <<>> /\ NoFactory
  /\ constitution_content = <<>>
  /\ check = "none" /\ violations = <<>> /\ returned = <<>> /\ raised = FALSE
  /\ exit_status = <<>>

\* main: construct the validator, validate, report and exit.
Main ==
  /\ exit_status = <<>>
  /\ constitution_content' = _load_constitution(constitution_file)
  /\ LET Exit(out) ==
           /\ violations' = out.violations
           /\ returned' = out.returned
           /\ raised' = out.raised
           /\ exit_status' = << out.status >>
     IN Exit(main(argv, phase_file, boundaries_file))
  /\ UNCHANGED << phase_file, check, constitution_file, boundaries_file, argv,
                  criterion, selected, runs, previous, stderr, calls_vars,
                  verify_failure, verify_pass, pipeline_vars, parser_vars,
                  tool_vars, factory_vars >>

SpecMain == InitMain /\ [][Main]_vars

\* ------------------------------------ one validator, several calls

\* The number of validate_file calls made one after another.
MaxCalls == 2

\* The files a call may name: three documents with violations found by
\* different checks (the third makes the last check raise) and a path with
\* no file.
CallFiles ==
  { [path |-> "a.md", file |-> ValidatedDoc(1, "all", "chatty", FALSE)],
    [path |-> "b.md", file |-> ValidatedDoc(0, "none", "tight", FALSE)],
    [path |-> "c.md", file |-> ValidatedDoc(2, "first", "mixed", TRUE)],
    [path |-> "missing.md", file |-> NoDoc] }

\* The order in which validate_file runs the checks.
Checks ==
  << "context_efficiency", "minimalism", "reasonable_defaults",
     "agent_centric_content", "focus", "boundaries", "drift_detection",
     "verification" >>

\* What the k-th check of validate_file finds in a file.
FoundBy(k, file, path) ==
  CASE k = 1 -> _validate_context_efficiency(file, path)
    [] k = 2 -> _validate_minimalism(file, path)
    [] k = 3 -> _validate_reasonable_defaults(file, path)
    [] k = 4 -> _validate_agent_centric_content(file, path)
    [] k = 5 -> _validate_focus(file, path)
    [] k = 6 -> _validate_boundaries(file, path)
    [] k = 7 -> _validate_drift_detection(file, path)
    [] OTHER -> _validate_verification(file, path).violations

\* A call that has not started: at is 0 before the call, k while the k-th
\* check is next, Len(Checks) + 1 before the return statement; result is
\* the list object returned, 0 while there is none.
NewCall(f) ==
  [path |-> f.path, file |-> f.file, at |-> 0, ended |-> "no", result |-> 0]

Running(c) == call[c].at > 0 /\ call[c].ended = "no"

\* ConstitutionalValidator(): self.violations is a new, empty list.
InitCalls(callers) ==
  /\ NoPipeline /\ NoParser /\ NoValidator /\ boundaries_file = NoDoc
  /\ argv = <<>> /\ exit_status = <<>> /\ criterion = <<>> /\ selected = <<>>
  /\ runs = 0 /\ previous = <<>> /\ stderr = <<>>
  /\ verify_failure = <<>> /\ verify_pass = <<>>
  /\ available = TRUE /\ result = <<>> /\ NoFactory
  /\ heap = << <<>> >> /\ self_violations = 1
  /\ \E files \in [callers -> CallFiles] :
       call = [c \in callers |-> NewCall(files[c])]

\* validate_file that empties the list self.violations refers to, in place,
\* where the code binds self.violations to a new list.
CallValidateFileInPlace(c) ==
  /\ call[c].at = 0 /\ call[c].ended = "no"
  /\ heap' = [heap EXCEPT ![self_violations] = <<>>]
  /\ call' = [call EXCEPT ![c].at = IF Readable(call[c].file) THEN 1 ELSE 0,
                          ![c].ended = IF Readable(call[c].file) THEN "no"
                                       ELSE "raised"]
  /\ UNCHANGED << self_violations, pipeline_vars, parser_vars, validator_vars,
                  boundaries_file, argv, exit_status, criterion, selected,
                  runs, previous, stderr, verify_failure, verify_pass,
                  tool_vars, factory_vars >>

\* validate_file, its first two statements: self.violations = [] and the
\* read of the file, which raises when the file is missing or unreadable.
CallValidateFile(c) ==
  /\ call[c].at = 0 /\ call[c].ended = "no"
  /\ heap' = Append(heap, <<>>)
  /\ self_violations' = Len(heap) + 1
  /\ call' = [call EXCEPT ![c].at = IF Readable(call[c].file) THEN 1 ELSE 0,
                          ![c].ended = IF Readable(call[c].file) THEN "no"
                                       ELSE "raised"]
  /\ UNCHANGED << pipeline_vars, parser_vars, validator_vars, boundaries_file,
                  argv, exit_status, criterion, selected, runs, previous,
                  stderr, verify_failure, verify_pass,
                  tool_vars, factory_vars >>

\* The next check of a call: _add_violation appends to the list
\* self.violations refers to when the check runs.  The last check may
\* raise, and then the call returns nothing.
CallRunCheck(c) ==
  /\ Running(c) /\ call[c].at <= Len(Checks)
  /\ heap' = [heap EXCEPT ![self_violations] =
                @ \o FoundBy(call[c].at, call[c].file, call[c].path)]
  /\ call' = [call EXCEPT ![c].at = @ + 1,
                          ![c].ended =
                            IF call[c].at = Len(Checks)
                               /\ _validate_verification(call[c].file,
                                                         call[c].path).raised
                              THEN "raised" ELSE "no"]
  /\ UNCHANGED << self_violations, pipeline_vars, parser_vars, validator_vars,
                  boundaries_file, argv, exit_status, criterion, selected,
                  runs, previous, stderr, verify_failure, verify_pass,
                  tool_vars, factory_vars >>

\* return self.violations: the caller holds the list object, not a copy.
CallReturn(c) ==
  /\ Running(c) /\ call[c].at = Len(Checks) + 1
  /\ call' = [call EXCEPT ![c].ended = "returned",
                          ![c].result = self_violations]
  /\ UNCHANGED << heap, self_violations, pipeline_vars, parser_vars,
                  validator_vars, boundaries_file, argv, exit_status,
                  criterion, selected, runs, previous, stderr, verify_failure,
                  verify_pass,
                  tool_vars, factory_vars >>

\* Calls made one after another: a call starts when no other call runs.
InitSequence == InitCalls(1..MaxCalls)

NextSequence ==
  \E c \in DOMAIN call :
    \/ (\A d \in DOMAIN call : ~Running(d)) /\ CallValidateFile(c)
    \/ CallRunCheck(c)
    \/ CallReturn(c)

SpecSequence == InitSequence /\ [][NextSequence]_vars

\* Two threads that share the validator and call validate_file on
\* different documents: CPython may switch threads between any two
\* statements of validate_file.
Callers == { "first", "second" }

InitShared ==
  /\ InitCalls(Callers)
  /\ call["first"].path # call["second"].path

NextShared ==
  \E c \in Callers : CallValidateFile(c) \/ CallRunCheck(c) \/ CallReturn(c)

SpecShared == InitShared /\ [][NextShared]_vars

\* ------------------------------------------ ConstitutionalValidatorTool

\* The dict the except clauses of execute return: one critical violation.
Failed(principle, artifact_path) ==
  [passed |-> FALSE,
   violations |-> << ComplianceViolation(principle, "critical", artifact_path,
                                          "", "") >>]

\* ConstitutionalValidatorTool.execute.  The validator is None when its
\* import failed.  The constructor reads the policy document, validate_file
\* the artifact; FileNotFoundError and every other exception of the two
\* calls end in an except clause.
execute(validator_imported, artifact, policy, artifact_path) ==
  LET blocking(found) ==
        SelectSeq(found, LAMBDA v : v.severity \in { "error", "critical" })
      Report(out) ==
        IF out.raised THEN Failed("Validation Error", artifact_path)
        ELSE [passed |-> Len(blocking(out.violations)) = 0,
              violations |-> out.violations]
  IN IF ~validator_imported THEN [passed |-> TRUE, violations |-> <<>>]
     ELSE IF policy = Unreadable THEN Failed("Validation Error", artifact_path)
     ELSE IF artifact = NoDoc THEN Failed("File System", artifact_path)
     ELSE Report(validate_file(artifact, artifact_path))

\* The tool is loaded, with or without the validator, and an artifact and a
\* policy document lie on disk.
InitTool ==
  /\ NoPipeline /\ NoParser /\ boundaries_file = NoDoc
  /\ argv = <<>> /\ exit_status = <<>> /\ criterion = <<>> /\ selected = <<>>
  /\ runs = 0 /\ previous = <<>> /\ stderr = <<>>
  /\ heap = <<>> /\ self_violations = 0 /\ call = <<>>
  /\ verify_failure = <<>> /\ verify_pass = <<>>
  /\ phase_file \in MainFiles
  /\ constitution_file \in PolicyFiles \cup { Unreadable }
  /\ constitution_content = <<>>
  /\ check = "none" /\ violations = <<>> /\ returned = <<>> /\ raised = FALSE
  /\ available \in BOOLEAN
  /\ result = <<>> /\ NoFactory

Execute ==
  /\ result = <<>>
  /\ result' = << execute(available, phase_file, constitution_file, file_path) >>
  /\ UNCHANGED << available, pipeline_vars, parser_vars, validator_vars,
                  boundaries_file, argv, exit_status, criterion, selected,
                  runs, previous, stderr, calls_vars, verify_failure,
                  verify_pass,
                  factory_vars >>

SpecTool == InitTool /\ [][Execute]_vars

\* --------------------------------------------------------- SoftwareFactory

\* The phases of run and of _execute_tdd_path, in the order of their
\* _execute_phase calls.  The agent's metadata is {"command": ...} and holds
\* no "recommendation", so run takes path_mode "TDD" and never calls
\* _execute_seed_path.
Phases ==
  << "spec-to-requirements", "discriminate-layer2", "complexity-gate",
     "requirements-to-red", "discriminate-red", "red-to-green",
     "discriminate-green", "execute-red", "execute-green",
     "check-data-plane" >>

\* The names an agent may record as artifacts (path.name of a file it
\* reports as generated).
ArtifactNames ==
  { "requirements.md", "test-cases.md", "red-phase.md", "green-phase.md",
    "data-plane-target.yaml", "data-plane-current.yaml" }

\* How a call of _execute_phase may end: the agent returns and the state is
\* saved; creating or running the agent raises; self.state.save() raises.
Outcomes == { "completed", "agent raised", "save raised" }

\* run and _execute_tdd_path that return after a phase only when every
\* artifact it is to generate is missing.
failed_after_all_missing(phase, recorded) ==
  CASE phase = "spec-to-requirements" ->
         "requirements.md" \notin recorded /\ "test-cases.md" \notin recorded
    [] phase = "requirements-to-red"  -> "red-phase.md" \notin recorded
    [] phase = "red-to-green"         -> "green-phase.md" \notin recorded
    [] OTHER                          -> FALSE

\* The checks of run and _execute_tdd_path after a phase: the run returns a
\* failed result when an artifact the phase is to generate is not recorded.
failed_after(phase, recorded) ==
  CASE phase = "spec-to-requirements" ->
         "requirements.md" \notin recorded \/ "test-cases.md" \notin recorded
    [] phase = "requirements-to-red"  -> "red-phase.md" \notin recorded
    [] phase = "red-to-green"         -> "green-phase.md" \notin recorded
    [] OTHER                          -> FALSE

\* The phase that follows phase k on the TDD path, "succeeded" after the
\* last.  check-data-plane runs when data_plane_target, read on entering
\* _execute_tdd_path, and the current data plane are both recorded.
next_phase(k, data_plane_target, recorded) ==
  IF k + 1 < Len(Phases) THEN Phases[k + 1]
  ELSE IF k + 1 = Len(Phases) /\ data_plane_target
          /\ "data-plane-current.yaml" \in recorded
    THEN Phases[k + 1]
  ELSE "succeeded"

\* The position of run: the phase to execute next and the local
\* data_plane_target of _execute_tdd_path.
At(phase, data_plane_target) ==
  [at |-> phase, data_plane_target |-> data_plane_target]

\* SoftwareFactory(): FactoryState() with its defaults.
InitFactory ==
  /\ NoPipeline /\ NoParser /\ NoValidator /\ boundaries_file = NoDoc
  /\ argv = <<>> /\ exit_status = <<>> /\ criterion = <<>> /\ selected = <<>>
  /\ runs = 0 /\ previous = <<>> /\ stderr = <<>>
  /\ heap = <<>> /\ self_violations = 0 /\ call = <<>>
  /\ verify_failure = <<>> /\ verify_pass = <<>>
  /\ available = TRUE /\ result = <<>>
  /\ factory_pc = At("run", FALSE) /\ current_phase = "spec-to-requirements"
  /\ artifacts = {} /\ started = <<>> /\ factory_result = <<>>

NotFactory ==
  << pipeline_vars, parser_vars, validator_vars, boundaries_file, argv,
     exit_status, criterion, selected, runs, previous, stderr, calls_vars,
     verify_failure, verify_pass, tool_vars >>

\* run, up to its first phase: self.state.load_human_spec(human_spec_path).
Run ==
  /\ factory_pc.at = "run"
  /\ artifacts' = artifacts \cup { "human-spec.md" }
  /\ factory_pc' = At(Phases[1], FALSE)
  /\ UNCHANGED << current_phase, started, factory_result, NotFactory >>

\* FactoryResult.failed(blocked_phase, message).
Fail(blocked_phase, message) ==
  /\ factory_pc' = At("returned", FALSE)
  /\ factory_result' =
       << [success |-> FALSE, blocked_phase |-> blocked_phase,
           message |-> message] >>

\* What run and _execute_tdd_path do after _execute_phase(Phases[k], ...)
\* has returned: the check of the artifacts, the read of data_plane_target
\* before requirements-to-red, the next phase or FactoryResult.succeeded.
Continue(k, recorded) ==
  LET target == IF Phases[k] = "complexity-gate"
                  THEN "data-plane-target.yaml" \in recorded
                  ELSE factory_pc.data_plane_target
  IN  IF failed_after(Phases[k], recorded)
        THEN Fail(Phases[k], "Failed to generate")
      ELSE IF next_phase(k, target, recorded) = "succeeded"
        THEN /\ factory_pc' = At("returned", FALSE)
             /\ factory_result' =
                  << [success |-> TRUE, blocked_phase |-> "",
                      message |-> ""] >>
      ELSE /\ factory_pc' = At(next_phase(k, target, recorded), target)
           /\ UNCHANGED factory_result

\* _execute_phase(Phases[k], ...) and what the caller does with its result.
\* The agent records any artifacts.  self.state.current_phase is set after
\* the agent has returned; an exception ends in the except clause of run or
\* of _execute_tdd_path, which reports self.state.current_phase.
ExecutePhase(k) ==
  /\ factory_pc.at = Phases[k]
  /\ started' = Append(started, Phases[k])
  /\ \E outcome \in Outcomes, output_artifacts \in SUBSET ArtifactNames :
       CASE outcome = "agent raised" ->
              /\ Fail(current_phase, "str(e)")
              /\ UNCHANGED << current_phase, artifacts >>
         [] outcome = "save raised" ->
              /\ current_phase' = Phases[k]
              /\ artifacts' = artifacts \cup output_artifacts
              /\ Fail(Phases[k], "str(e)")
         [] OTHER ->
              /\ current_phase' = Phases[k]
              /\ artifacts' = artifacts \cup output_artifacts
              /\ Continue(k, artifacts \cup output_artifacts)
  /\ UNCHANGED NotFactory

NextFactory == Run \/ \E k \in DOMAIN Phases : ExecutePhase(k)

SpecFactory == InitFactory /\ [][NextFactory]_vars

\* ------------------------------------------------ properties: TaskParser

\* The place of a kind of task in the execution order.
Rank(kind) ==
  CASE kind = "RED-SETUP" -> 1 [] kind = "RED" -> 2 [] kind = "GREEN" -> 3
    [] kind = "GREEN-CONFIG" -> 4 [] kind = "GREEN-INT" -> 5
    [] kind = "GREEN-SKIP" -> 6 [] kind = "GREEN-REVIEW" -> 7 [] OTHER -> 0

\* The ids of the header lines of a kind, in document order.
HeaderNames(doc, kind) ==
  LET hs == SelectSeq(doc.lines, LAMBDA l : l.k = "hdr" /\ l.kind = kind)
  IN [i \in DOMAIN hs |-> Name(kind, hs[i].id)]

\* sub is what is left of full after dropping some of its elements.
RECURSIVE IsSubSeq(_, _)
IsSubSeq(sub, full) ==
  IF sub = <<>> THEN TRUE
  ELSE IF full = <<>> THEN FALSE
  ELSE IF Head(sub) = Head(full) THEN IsSubSeq(Tail(sub), Tail(full))
  ELSE IsSubSeq(sub, Tail(full))

\* The ids the parser extracts for a kind of task.
ParsedNames(doc, kind) ==
  Ids(CASE kind = "RED-SETUP"    -> TP_parse_red_setup_tasks(doc)
        [] kind = "RED"          -> TP_parse_red_test_tasks(doc)
        [] kind = "GREEN"        -> TP_parse_green_implementation_tasks(doc)
        [] kind = "GREEN-CONFIG" -> TP_parse_green_config_tasks(doc)
        [] kind = "GREEN-INT"    -> TP_parse_green_integration_tasks(doc)
        [] kind = "GREEN-SKIP"   -> TP_parse_green_skip_tasks(doc)
        [] OTHER                 -> TP_parse_green_review_tasks(doc), kind)

\* The kind of the header line of a document that carries an id, "" when no
\* header line does.
KindIn(doc, id) ==
  LET at == { i \in DOMAIN doc.lines :
                doc.lines[i].k = "hdr"
                /\ Name(doc.lines[i].kind, doc.lines[i].id) = id }
  IN IF at = {} THEN "" ELSE doc.lines[CHOOSE i \in at : TRUE].kind

TaskKinds ==
  {"RED-SETUP", "RED", "GREEN", "GREEN-CONFIG", "GREEN-INT", "GREEN-SKIP",
   "GREEN-REVIEW"}

\* C1: the listing get_task_execution_order returns holds the seven groups in
\* the fixed order RED-SETUP, RED, GREEN, GREEN-CONFIG, GREEN-INT, GREEN-SKIP,
\* GREEN-REVIEW; the ids of a group are those of the records the parser
\* extracts for it, each once, in the order of their header lines in the
\* document.
C1_ExecutionOrder ==
  query = "order" =>
    LET kinds == [i \in DOMAIN listing |-> KindIn(content, listing[i])]
        Group(kind) ==
          LET at == SelectSeq([i \in DOMAIN listing |-> i],
                              LAMBDA i : kinds[i] = kind)
          IN [n \in DOMAIN at |-> listing[at[n]]]
    IN /\ \A i, j \in DOMAIN listing : i < j => Rank(kinds[i]) <= Rank(kinds[j])
       /\ \A i \in DOMAIN listing : kinds[i] \in TaskKinds
       /\ \A i, j \in DOMAIN listing : i # j => listing[i] # listing[j]
       /\ \A kind \in TaskKinds :
            /\ Group(kind) = ParsedNames(content, kind)
            /\ IsSubSeq(Group(kind), HeaderNames(content, kind))

\* An integration task written ahead of a configuration task, after a red
\* test task: the listing does not follow the document.
C1_Witness ==
  /\ query = "order"
  /\ HeaderNames(content, "GREEN-INT") = << "GREEN-INT-002" >>
  /\ listing = << "RED-001", "GREEN-CONFIG-003", "GREEN-INT-002" >>

\* The number of opening brackets of a text.
Opens(text) == Cardinality({ i \in DOMAIN text : text[i] = "[" })

\* The header lines of the test and implementation tasks whose Traceability
\* line, the first of the record, holds fewer than MinGroups bracketed groups.
ShortChains(doc) ==
  { i \in DOMAIN doc.lines :
      /\ doc.lines[i].k = "hdr" /\ doc.lines[i].kind \in {"RED", "GREEN"}
      /\ i < Len(doc.lines)
      /\ doc.lines[i + 1].k = "field" /\ doc.lines[i + 1].label = "Traceability"
      /\ Opens(doc.lines[i + 1].v) < MinGroups }

\* C5: validate_traceability returns one violation, naming the record, for
\* each red test task and each green implementation task whose traceability
\* holds fewer than 3 bracketed groups, and nothing else.
C5_TraceabilityViolations ==
  query = "validate" =>
    /\ Len(errors) = Cardinality(ShortChains(content))
    /\ { errors[i] : i \in DOMAIN errors }
         = { Name(content.lines[i].kind, content.lines[i].id)
               \o ": Incomplete traceability chain" : i \in ShortChains(content) }

\* A document with a chain of one group and chains of three and four groups
\* beside a setup task: one violation.
C5_Witness ==
  /\ query = "validate"
  /\ Len(errors) = 1
  /\ HeaderNames(content, "RED-SETUP") # <<>>
  /\ \E i \in DOMAIN content.lines :
       /\ content.lines[i].k = "field" /\ content.lines[i].label = "Traceability"
       /\ Opens(content.lines[i].v) >= MinGroups

\* -------------------------------------------------- properties: pipeline

\* The set of the elements of a sequence.
Range(seq) == { seq[i] : i \in DOMAIN seq }

\* The header lines of a kind, in document order.
Headers(doc, kind) ==
  SelectSeq(doc.lines, LAMBDA l : l.k = "hdr" /\ l.kind = kind)

\* C2: the green-phase document holds exactly one GREEN implementation
\* record for each red test record parsed from the red-phase document.
C2_OneGreenPerRed ==
  stage = "done" =>
    \A red_task \in Range(parse_red_tasks(red_phase_md)) :
      Cardinality({ i \in DOMAIN green_phase_md.lines :
                      /\ green_phase_md.lines[i].k = "hdr"
                      /\ green_phase_md.lines[i].kind = "GREEN"
                      /\ Str(green_phase_md.lines[i].w) = red_task.id }) = 1

\* C3: in a red-phase document the second stage wrote, the traceability of
\* every red test record is a bracket whose content splits on the arrow
\* into exactly 3 segments, none of them empty.
C3_ThreeSegments ==
  (test_cases_md # NoDoc /\ red_phase_md # NoDoc) =>
    \A red_task \in Range(parse_red_tasks(red_phase_md)) :
      LET t == red_task.traceability IN
        /\ Len(t) >= 2 /\ t[1] = "[" /\ t[Len(t)] = "]"
        /\ LET parts == Split(SubSeq(t, 2, Len(t) - 1), Arrow) IN
             Len(parts) = 3 /\ \A p \in DOMAIN parts : parts[p] # <<>>

\* C4: along a run of the three stages from a human specification, every
\* requirement names a parsed outcome, every test case a written
\* requirement, every red test task a parsed test case and every green
\* implementation task a parsed red test task.
C4_IdentifierChain ==
  human_spec_md # NoDoc =>
    /\ requirements_md # NoDoc =>
         \A l \in Range(Headers(requirements_md, "REQ")) :
           Str(l.v) \in { o.id : o \in Range(parse_outcomes(human_spec_md)) }
    /\ test_cases_md # NoDoc =>
         \A test_case \in Range(parse_test_cases(test_cases_md)) :
           test_case.requirement_id
             \in { Name("REQ", l.id) : l \in Range(Headers(requirements_md, "REQ")) }
    /\ red_phase_md # NoDoc =>
         \A red_task \in Range(parse_red_tasks(red_phase_md)) :
           red_task.test_id
             \in { test_case.id : test_case \in Range(parse_test_cases(test_cases_md)) }
    /\ green_phase_md # NoDoc =>
         \A l \in Range(Headers(green_phase_md, "GREEN")) :
           Str(l.w) \in { red_task.id : red_task \in Range(parse_red_tasks(red_phase_md)) }

\* A run from a specification of two outcomes that ends with two green
\* implementation tasks.
C4_Witness ==
  /\ stage = "done" /\ human_spec_md # NoDoc
  /\ Len(parse_outcomes(human_spec_md)) >= 2
  /\ Len(Headers(requirements_md, "REQ")) >= 2
  /\ Len(Headers(green_phase_md, "GREEN")) >= 2

\* C6: in every document a stage writes, the k-th record of a kind carries
\* the identifier k, and the k-th green implementation record derives from
\* the k-th red test record.
C6_AscendingIds ==
  /\ \A l \in DOMAIN Headers(requirements_md, "REQ") :
       Headers(requirements_md, "REQ")[l].id = Pad3(l)
  /\ human_spec_md # NoDoc =>
       \A l \in DOMAIN Headers(test_cases_md, "TEST") :
         Headers(test_cases_md, "TEST")[l].id = Pad3(l)
  /\ test_cases_md # NoDoc =>
       \A l \in DOMAIN Headers(red_phase_md, "RED") :
         Headers(red_phase_md, "RED")[l].id = Pad3(l)
  /\ \A l \in DOMAIN Headers(green_phase_md, "GREEN") :
       /\ Headers(green_phase_md, "GREEN")[l].id = Pad3(l)
       /\ Str(Headers(green_phase_md, "GREEN")[l].w)
            = parse_red_tasks(red_phase_md)[l].id

\* The setup tasks in their fixed order, each with the word of a test type
\* that asks for it.
SetupPlan ==
  << [trigger |-> "Backend",
      description |-> << "Setup", "test", "database", "for", "Django" >>],
     [trigger |-> "Contract",
      description |-> << "Setup", "API", "contract", "mocks" >>],
     [trigger |-> "Frontend",
      description |-> << "Setup", "React", "testing", "environment" >>] >>

\* C7: the setup tasks of the red-phase document are the database, mock and
\* frontend tasks in this order, each present once iff some test type
\* holds its word, numbered 001, 002, ... without a gap.
C7_SetupTasks ==
  (test_cases_md # NoDoc /\ red_phase_md # NoDoc) =>
    LET types == { test_case.test_type :
                     test_case \in Range(parse_test_cases(test_cases_md)) }
        want  == SelectSeq(SetupPlan,
                   LAMBDA p : \E type \in types : Contains(type, p.trigger))
        got   == Headers(red_phase_md, "RED-SETUP")
    IN /\ Len(got) = Len(want)
       /\ \A k \in DOMAIN got :
            got[k].id = Pad3(k) /\ got[k].v = want[k].description

\* Test cases whose first is a frontend one and that ask for the three setup
\* tasks, and test cases that ask for the last two only.
C7_Witness ==
  /\ test_cases_md # NoDoc
  /\ Len(Headers(red_phase_md, "RED-SETUP")) = 3
  /\ parse_test_cases(test_cases_md) # <<>>
  /\ Contains(parse_test_cases(test_cases_md)[1].test_type, "Frontend")
  /\ ~Contains(parse_test_cases(test_cases_md)[1].test_type, "Backend")

\* ------------------------------------------------- properties: validator

\* The task header lines of a document whose record holds no 'Verify ...'
\* line before the next task header.
UnmarkedTasks(doc) ==
  { i \in DOMAIN doc.lines :
      /\ IsTaskHeader(doc.lines[i])
      /\ ~\E j \in (i + 1)..Len(doc.lines) :
            /\ doc.lines[j].k = "field"
            /\ doc.lines[j].label \in {"Verify Failure", "Verify Pass"}
            /\ \A m \in (i + 1)..j : ~IsTaskHeader(doc.lines[m]) }

\* The violations of a list with a description.
Described(list, description) ==
  SelectSeq(list, LAMBDA v : v.description = description)

\* validate_file has ended, with a list or with an exception.
Ended == check \in {"returned", "raised"}

\* C8: validate_file yields one 'Task missing verification command'
\* violation for each task that holds no verification line, naming the task,
\* and none for the other tasks.
C8_OnePerUnmarkedTask ==
  Ended =>
    /\ check = "returned"
    /\ Len(Described(returned, "Task missing verification command"))
         = Cardinality(UnmarkedTasks(phase_file))
    /\ { v.location :
           v \in Range(Described(returned, "Task missing verification command")) }
         = { file_path \o ":" \o Name(phase_file.lines[i].kind, phase_file.lines[i].id) :
               i \in UnmarkedTasks(phase_file) }

\* C9: validate_file never ends with an exception: the eight checks run and
\* the list of violations is returned.
C9_NeverRaises == ~raised /\ check # "raised"

\* C10: the list validate_file returns holds one error of the Minimalism
\* principle for an excessive task count iff the document holds more than
\* 25 task header lines.
C10_ExcessiveTaskCount ==
  Ended =>
    /\ check = "returned"
    /\ Len(SelectSeq(returned, LAMBDA v :
             /\ v.principle = "Minimalism" /\ v.severity = "error"
             /\ v.description = "Excessive task count indicates complexity creep"))
         = IF Len(TaskHeaders(phase_file)) > TaskCeiling THEN 1 ELSE 0

\* ------------------------------------- properties: policy and exit status

\* C11: when the policy document does not exist, a validation that returns
\* reports at least one violation of critical severity.
C11_MissingPolicyIsCritical ==
  (constitution_file = NoDoc /\ check = "returned") =>
    \E i \in DOMAIN returned : returned[i].severity = "critical"

\* The run failed on reading the document: the except clause of main ran
\* because the document is missing or unreadable.
ReadFailed == raised /\ phase_file \in {NoDoc, Unreadable}

\* A violation that blocks.
Blocking(found) ==
  \E i \in DOMAIN found : found[i].severity \in {"error", "critical"}

\* C12: a run of main that reports its violations exits with a non-zero
\* status exactly when an error or critical violation is among them, and a
\* run that fails on reading the document exits with a status other than
\* the one used for blocking violations.
C12_ExitStatus ==
  exit_status # <<>> =>
    /\ ~raised => (exit_status[1] # 0 <=> Blocking(returned))
    /\ ReadFailed =>
         exit_status[1] # exit_code(<< ComplianceViolation("Focus", "error",
                                         file_path, "", "") >>)

\* ------------------------------------- properties: component boundaries

\* The label of the '- Component:' field of the record whose header is
\* line p of a document of well-formed records.
LabelAt(doc, p) == doc.lines[p + 2].v

\* C13: validate_component_boundaries does not raise; with a readable
\* allow-list it returns, in the order of the document, one error that
\* names the record and its component for each GREEN implementation record
\* whose component label is not in the allow-list text, and nothing else;
\* with an allow-list that cannot be read it returns exactly one error.
C13_ComponentBoundaries ==
  query \in {"boundaries", "boundaries raised"} =>
    /\ query = "boundaries"
    /\ IF boundaries_file \in {NoDoc, Unreadable} THEN Len(errors) = 1
       ELSE LET at == LinesWhere(content,
                        [i \in DOMAIN content.lines |->
                           /\ content.lines[i].k = "hdr"
                           /\ content.lines[i].kind = "GREEN"
                           /\ ~InBoundaries(LabelAt(content, i), boundaries_file)])
            IN errors =
                 [n \in DOMAIN at |->
                    Name("GREEN", content.lines[at[n]].id) \o ": Component '"
                    \o Str(LabelAt(content, at[n]))
                    \o "' not found in architecture boundaries"]

\* The values of the '- Component:' fields of a document, in order.
Declared(doc) ==
  LET fields == SelectSeq(doc.lines,
                  LAMBDA l : l.k = "field" /\ l.label = "Component")
  IN [i \in DOMAIN fields |-> fields[i].v]

\* C14: validate_architecture_compliance, when it returns, returns exactly
\* one critical violation if the document or the allow-list is missing, and
\* otherwise one error for each declared component value that is not in
\* the allow-list text, naming that value, and nothing for the others.
C14_ArchitectureCompliance ==
  (exit_status # <<>> /\ argv = << "--architecture-only" >> /\ ~raised) =>
    IF phase_file = NoDoc \/ boundaries_file = NoDoc
      THEN /\ Len(returned) = 1
           /\ returned[1].severity = "critical"
    ELSE LET absent == SelectSeq(Declared(phase_file),
                         LAMBDA c : ~InBoundaries(c, boundaries_file))
         IN /\ Len(returned) = Len(absent)
            /\ \A i \in DOMAIN returned :
                 /\ returned[i].severity = "error"
                 /\ returned[i].principle = "Architecture Boundaries"
                 /\ returned[i].detail = Str(absent[i])

\* ---------------------------------------------- properties: severities

\* The severity of each check, by the description of its violations.
SeverityOfCheck(description) ==
  CASE description \in
         { "Task description exceeds 200 characters",
           "High number of implementation tasks may indicate context inefficiency",
           "Complex pattern detected",
           "Non-standard implementation detected",
           "Django project not using Django ORM for models",
           "Human-oriented language detected",
           "Mixing Python and JavaScript test frameworks",
           "Mixing different test frameworks",
           "Potential scope creep detected",
           "Verification command may not be executable" } -> "warning"
    [] description \in
         { "Excessive task count indicates complexity creep",
           "Detected potential custom implementation",
           "Some tasks missing traceability information",
           "Non-software-production content detected",
           "Content lacks implementation focus",
           "Django components in frontend",
           "React components in backend",
           "JSX in Django code",
           "Django models in React",
           "Tasks not linked to requirements (REQ-XXX)",
           "Task missing verification command",
           "Component not found in architecture boundaries" } -> "error"
    [] description = "Required file not found" -> "critical"
    [] OTHER -> "unknown"

\* C15: every violation the validator holds or returns has the severity of
\* the check that produced it, one of warning, error and critical, whatever
\* the document and however many violations the check produced.
C15_StaticSeverity ==
  \A found \in {violations, returned} : \A i \in DOMAIN found :
    /\ found[i].severity \in {"warning", "error", "critical"}
    /\ found[i].severity = SeverityOfCheck(found[i].description)

\* A run that reports violations of the three severities.
C15_Witness ==
  /\ exit_status # <<>> /\ ~raised
  /\ \A s \in {"warning", "error", "critical"} :
       \E i \in DOMAIN returned : returned[i].severity = s

\* ------------------------------------------------- properties: records

\* The field labels of the RED test record and of the GREEN implementation
\* record, in the order of their patterns.
FieldLabels(kind) ==
  IF kind = "RED"
    THEN << "Traceability", "Test Type", "File Location", "Function Name",
            "Expected Failure", "Verify Failure" >>
  ELSE << "Traceability", "Component", "File Location", "Implementation",
          "Configuration", "Verify Pass" >>

\* The header lines of a kind whose field lines follow in the declared
\* order, in document order.
WellFormed(doc, kind) ==
  LinesWhere(doc,
    [h \in DOMAIN doc.lines |->
       /\ doc.lines[h].k = "hdr" /\ doc.lines[h].kind = kind
       /\ \A m \in DOMAIN FieldLabels(kind) :
            /\ h + m <= Len(doc.lines)
            /\ doc.lines[h + m].k = "field"
            /\ doc.lines[h + m].label = FieldLabels(kind)[m]])

\* C16: the records the parser emits are the well-formed records of the
\* document, in order, each with its own id and its own field values; a
\* header whose field lines are missing or out of order gives no record.
C16_NoPartialRecord ==
  query \in {"red", "green"} =>
    LET kind == IF query = "red" THEN "RED" ELSE "GREEN"
        at == WellFormed(content, kind)
        own(h, m) == content.lines[h + m].v
    IN /\ Len(parsed) = Len(at)
       /\ \A i \in DOMAIN at :
            /\ parsed[i].id = content.lines[at[i]].id
            /\ parsed[i].traceability = own(at[i], 1)
            /\ parsed[i].file_location = own(at[i], 3)
            /\ parsed[i].verify_command = own(at[i], 6)
            /\ IF query = "red"
                 THEN /\ parsed[i].test_type = own(at[i], 2)
                      /\ parsed[i].function_name = own(at[i], 4)
                      /\ parsed[i].expected_failure = own(at[i], 5)
               ELSE /\ parsed[i].component = own(at[i], 2)
                    /\ parsed[i].implementation = own(at[i], 4)
                    /\ parsed[i].configuration = own(at[i], 5)

\* --------------------------------------------- properties: derivations

\* The outcome id of each success criterion of the outcomes, outcome by
\* outcome, in order.
Owners(outcomes) ==
  Flatten([o \in DOMAIN outcomes |->
             [c \in DOMAIN outcomes[o].success_criteria |-> outcomes[o].id]])

\* C17: the requirements written by stage 1 are one for each success
\* criterion of the parsed outcomes, outcome by outcome in order, and the
\* test cases are one for each requirement: TEST-k names REQ-k and the
\* outcome of REQ-k.
C17_OnePerCriterion ==
  (human_spec_md # NoDoc /\ requirements_md # NoDoc) =>
    LET Holds(owners, reqs, tests) ==
          /\ Len(reqs) = Len(owners)
          /\ Len(tests) = Len(reqs)
          /\ \A k \in DOMAIN owners :
               /\ reqs[k].id = Pad3(k)
               /\ reqs[k].v = Tok(owners[k])
               /\ tests[k].id = Pad3(k)
               /\ tests[k].v = << Name("REQ", Pad3(k)), Arrow >> \o Tok(owners[k])
    IN Holds(Owners(parse_outcomes(human_spec_md)),
             Headers(requirements_md, "REQ"), Headers(test_cases_md, "TEST"))

\* Stage 1 has run on a specification of two outcomes, one of them with
\* two success criteria.
C17_Witness ==
  /\ human_spec_md # NoDoc /\ requirements_md # NoDoc
  /\ Len(parse_outcomes(human_spec_md)) = 2
  /\ \E o \in Range(parse_outcomes(human_spec_md)) : Len(o.success_criteria) = 2
  /\ Len(Headers(requirements_md, "REQ")) = 3
  /\ Headers(test_cases_md, "TEST")[3].v[3] # Headers(test_cases_md, "TEST")[1].v[3]

\* The keywords of component selection, in their order.
Keywords ==
  << "authentication", "api", "model", "task", "validation", "ui", "state",
     "routing", "http", "form", "style" >>

\* C18: the component selected for a text is that of the earliest keyword,
\* in the order of the list, that the text contains, wherever the keywords
\* stand in the text; a text with no keyword gets the frontend component
\* when it mentions 'frontend' and the backend API component otherwise.
C18_FirstMatchWins ==
  selected # <<>> =>
    LET hits == { k \in DOMAIN Keywords : ContainsLower(criterion, Keywords[k]) }
    IN /\ \A k \in DOMAIN Keywords : component_map[k][1] = Keywords[k]
       /\ IF hits # {}
            THEN selected =
                   component_map[CHOOSE k \in hits : \A n \in hits : k <= n][2]
          ELSE IF ContainsLower(criterion, "frontend")
            THEN selected = << "React", "functional", "component" >>
          ELSE selected = << "Django", "@api_view", "decorator" >>

\* A text whose first word holds a later keyword than its second word.
C18_Witness ==
  /\ criterion = << "style", "model" >>
  /\ selected = << "Django", "ORM", "(models.Model)" >>

\* The number of elements of a sequence that satisfy a test.
Count(seq, keep) == Len(SelectSeq([i \in DOMAIN seq |-> i], LAMBDA i : keep[i]))

\* C19: the green-phase document holds exactly one models-admin integration
\* task when some implementation task uses the model component and none
\* otherwise, exactly one API-UI integration task when some task uses the
\* API component and some task a React component and none otherwise, and
\* exactly one migration configuration task when some task uses the model
\* component and none otherwise, however many tasks use them.
C19_SetLevelTasks ==
  stage = "done" =>
    LET Holds(tasks, ints, configs) ==
          LET uses(x) == \E i \in DOMAIN tasks : Contains(tasks[i].component, x)
              models == IF uses("models.Model") THEN 1 ELSE 0
              wired  == IF uses("@api_view") /\ uses("React") THEN 1 ELSE 0
          IN /\ Count(ints, [i \in DOMAIN ints |->
                       /\ ints[i].v = << "Django", "models" >>
                       /\ ints[i].w = << "Django", "admin" >>]) = models
             /\ Count(ints, [i \in DOMAIN ints |->
                       /\ ints[i].v = << "Django", "API" >>
                       /\ ints[i].w = << "React", "components" >>]) = wired
             /\ Len(ints) = models + wired
             /\ Len(configs) = models
             /\ \A i \in DOMAIN configs :
                  configs[i].v = << "database", "migrations" >>
    IN Holds(create_green_tasks(parse_red_tasks(red_phase_md)),
             Headers(green_phase_md, "GREEN-INT"),
             Headers(green_phase_md, "GREEN-CONFIG"))

\* Stage 3 has run on three red tasks, two of which lead to the model
\* component: one models-admin integration task and one migration task.
C19_Witness ==
  /\ stage = "done"
  /\ Len(Headers(green_phase_md, "GREEN-INT")) = 1
  /\ Len(Headers(green_phase_md, "GREEN-CONFIG")) = 1
  /\ Count(Headers(green_phase_md, "GREEN"),
           [i \in DOMAIN Headers(green_phase_md, "GREEN") |-> TRUE]) = 3
  /\ Count(SelectSeq(green_phase_md.lines,
                     LAMBDA l : l.k = "field" /\ l.label = "Component"),
           [i \in DOMAIN SelectSeq(green_phase_md.lines,
                     LAMBDA l : l.k = "field" /\ l.label = "Component") |->
              Contains(SelectSeq(green_phase_md.lines,
                     LAMBDA l : l.k = "field" /\ l.label = "Component")[i].v,
                       "models.Model")]) = 2

\* ---------------------------------------------- properties: determinism

\* What the last run of the transformer of the stage returned.
Output ==
  CASE stage = "spec_to_requirements" -> << requirements_md, test_cases_md >>
    [] stage = "requirements_to_red"  -> << red_phase_md >>
    [] OTHER                          -> << green_phase_md >>

InputFailed ==
  CASE stage = "spec_to_requirements" -> ~Readable(human_spec_md)
    [] stage = "requirements_to_red"  ->
         ~Readable(requirements_md) \/ ~Readable(test_cases_md)
    [] stage = "red_to_green"         -> ~Readable(red_phase_md)
    [] OTHER                          -> FALSE

\* C21: a stage whose required input is missing or unreadable exits with a
\* failure status and a printed error, and its output files are as they
\* were before it ran.
C21_AbortWithoutOutput ==
  (exit_status # <<>> /\ InputFailed) =>
    /\ exit_status[1] # 0
    /\ stderr # <<>>
    /\ Output = previous

\* Stage 2 has exited on a missing test-cases document while a red-phase
\* document of an earlier run lay at the output path.
C21_Witness ==
  /\ stage = "requirements_to_red" /\ exit_status # <<>>
  /\ test_cases_md = NoDoc /\ Readable(requirements_md)
  /\ previous = << StaleDoc >>

\* ------------------------------------- properties: one validator, reused

\* What a validator constructed for this one call returns for the file.
Fresh(c) == validate_file(call[c].file, call[c].path).violations

\* C22: with calls made one after another, the list a call returned holds
\* what a fresh validator returns for its file, when the call returns and
\* after every later call.
C22_NoStateAcrossCalls ==
  \A c \in DOMAIN call :
    call[c].ended = "returned" => heap[call[c].result] = Fresh(c)

\* Two calls have returned, the later one on another document, and both
\* documents have violations.
C22_Witness ==
  /\ DOMAIN call = 1..MaxCalls
  /\ \A c \in DOMAIN call : call[c].ended = "returned" /\ Fresh(c) # <<>>
  /\ call[1].path # call[2].path
  /\ call[1].result # call[2].result

\* C29: when two calls on different documents share the validator, the
\* list each call returns holds the violations of its own document, all of
\* them and no others.
C29_OwnViolationsOnly ==
  DOMAIN call = Callers =>
    \A c \in Callers :
      call[c].ended = "returned" => heap[call[c].result] = Fresh(c)

\* --------------------------- properties: the green verification command

\* The pieces of a command that belong to no flag and are no blank.
Kept(text) == SelectSeq(text, LAMBDA p : p \notin { " ", "--tb=", "short" })

\* The green task has been made (a command that is the flag alone gives an
\* empty green command).
Made == verify_pass # <<>> \/ verify_failure = << "--tb=", "short" >>

\* C23: the green command holds no '--tb=short', keeps every other word of
\* the red command, and is the red command itself when that holds no flag.
C23_FlagStripped ==
  Made =>
    /\ ~HasFlag(verify_pass)
    /\ Kept(verify_pass) = Kept(verify_failure)
    /\ ~HasFlag(verify_failure) => verify_pass = verify_failure

\* ------------------------------------------ properties: the tool's verdict

\* The artifact has a violation of severity error or critical: one that the
\* first seven checks report, or a task record without its verification
\* command.
ArtifactBlocked(file) ==
  \/ Blocking(_validate_context_efficiency(file, file_path)
              \o _validate_minimalism(file, file_path)
              \o _validate_reasonable_defaults(file, file_path)
              \o _validate_agent_centric_content(file, file_path)
              \o _validate_focus(file, file_path)
              \o _validate_boundaries(file, file_path)
              \o _validate_drift_detection(file, file_path))
  \/ UnmarkedTasks(file) # {}

\* execute has validated an artifact: the validator was imported, and the
\* policy document and the artifact could be read (a missing policy
\* document reads as empty).
Validated ==
  /\ result # <<>> /\ available
  /\ constitution_file # Unreadable /\ Readable(phase_file)

\* C24: execute reports a validated artifact as passed exactly when the
\* artifact has no violation of severity error or critical.
C24_PassedIffNotBlocked ==
  Validated => (result[1].passed <=> ~ArtifactBlocked(phase_file))

\* -------------------------------------------- properties: review records

\* The value written on the labelled line of the k-th review record.
Written(k, label) ==
  LET at == { i \in DOMAIN content.lines :
                /\ content.lines[i].k = "field" /\ content.lines[i].label = label
                /\ Cardinality({ j \in 1..i :
                     content.lines[j].k = "hdr"
                     /\ content.lines[j].kind = "GREEN-REVIEW" }) = k }
  IN content.lines[CHOOSE i \in at : TRUE].v

\* C25: parse_green_tasks returns one review task for every GREEN-REVIEW
\* record, and its reason, analysis, recommendation and status are the
\* values written on the record's labelled lines.
C25_ReviewFields ==
  query = "green review" =>
    /\ Len(parsed) = Len(Headers(content, "GREEN-REVIEW"))
    /\ \A k \in DOMAIN parsed :
         /\ parsed[k].reason = Written(k, "Reason")
         /\ parsed[k].analysis = Written(k, "Analysis")
         /\ parsed[k].recommendation = Written(k, "Recommendation")
         /\ parsed[k].status = Written(k, "Status")

\* ------------------------------------------------------------- C26, C30

TDDPath == SubSeq(Phases, 1, 9)

\* C26: on the TDD path the phases are started strictly in the order
\* spec-to-requirements, discriminate-layer2, complexity-gate,
\* requirements-to-red, discriminate-red, red-to-green, discriminate-green,
\* execute-red, execute-green; requirements-to-red is never started unless
\* requirements.md and test-cases.md are both recorded, red-to-green never
\* unless red-phase.md is recorded, discriminate-green never unless
\* green-phase.md is recorded.
C26_PhaseOrder ==
  LET n == IF Len(started) < Len(TDDPath) THEN Len(started) ELSE Len(TDDPath)
      Started(phase) == \E i \in DOMAIN started : started[i] = phase
  IN  /\ SubSeq(started, 1, n) = SubSeq(TDDPath, 1, n)
      /\ Started("requirements-to-red")
           => { "requirements.md", "test-cases.md" } \subseteq artifacts
      /\ Started("red-to-green") => "red-phase.md" \in artifacts
      /\ Started("discriminate-green") => "green-phase.md" \in artifacts

C26_Witness ==
  /\ Len(started) >= Len(TDDPath)
  /\ factory_result # <<>> /\ factory_result[1].success

\* C30: when a phase raises, the failed result names the phase that
\* raised, the last one started, and no earlier completed phase.
C30_BlockedPhaseIsRaisingPhase ==
  (factory_result # <<>> /\ factory_result[1].message = "str(e)")
    => factory_result[1].blocked_phase = started[Len(started)]

\* ------------------------------------------------------------- C27, C28

\* C27: TaskParser.validate_traceability returns no violation for a
\* red-phase document the second stage wrote from the test cases of the
\* first stage, nor for the green-phase document the third stage wrote
\* from it.
C27_PipelineChainsAccepted ==
  human_spec_md # NoDoc =>
    /\ red_phase_md # NoDoc => TP_validate_traceability(red_phase_md) = <<>>
    /\ green_phase_md # NoDoc => TP_validate_traceability(green_phase_md) = <<>>

\* The fields TaskParser gives a red test task, from the task the second
\* stage serialized.
AsRedTestTask(task) ==
  [id |-> task.id, test_id |-> Tok(task.test_id),
   traceability |-> task.traceability, test_type |-> task.test_type,
   file_location |-> task.file_location, function_name |-> task.function_name,
   expected_failure |-> task.expected_failure,
   verify_command |-> task.verify_failure]

\* The fields TaskParser gives a green implementation task, from the task
\* the third stage serialized.
AsGreenImplementationTask(task) ==
  [id |-> task.id, requirement_id |-> Tok(task.requirement_id),
   red_task_id |-> Tok(task.red_task_id), traceability |-> task.traceability,
   component |-> task.component, file_location |-> task.file_location,
   implementation |-> task.implementation,
   configuration |-> task.configuration, verify_command |-> task.verify_pass]

\* The tasks the second stage serialized into red-phase.md.
RedSerialized(test_cases) ==
  [setup_tasks |-> create_setup_tasks(test_cases),
   test_tasks  |->
     [ i \in DOMAIN create_red_tasks(test_cases) |->
       AsRedTestTask(create_red_tasks(test_cases)[i]) ]]

\* The tasks the third stage serialized into green-phase.md, in the order
\* of the document: the backend group, then the frontend group.
GreenSerialized(green_tasks) ==
  [implementation_tasks |->
     LET InDocument(tasks) ==
           [ i \in DOMAIN tasks |-> AsGreenImplementationTask(tasks[i]) ]
     IN InDocument(backend_tasks(green_tasks) \o frontend_tasks(green_tasks)),
   integration_tasks |-> create_integration_tasks(green_tasks),
   config_tasks |-> create_config_tasks(green_tasks)]

=============================================================================
